---- MODULE Spec2Model ----
(***************************************************************************)
(* Model of the llmcmd file broker (vfsd/src/main.rs) and of the parent    *)
(* multiplexer (llmsh-rs/src/mux.rs).                                      *)
(*                                                                         *)
(* Files are modelled at the level the broker observes them: an inode is   *)
(* a byte sequence, an open file description (the kernel object a file     *)
(* descriptor names) is an inode plus a position plus the O_APPEND flag.   *)
(* F_DUPFD yields a second descriptor of the SAME open file description,   *)
(* so a handle made by dup stores the same description index as its        *)
(* source.  Failures of the operating system itself (EIO, ENOSPC, short    *)
(* writes on regular files) are outside the model.                         *)
(***************************************************************************)
EXTENDS Integers, Sequences, FiniteSets, TLC

VARIABLES
    next,           \* State.next
    handles,        \* State.handles : handle id -> HandleKind
    virtual_files,  \* State.virtual_files : path -> VirtualEntry
    ofds,           \* kernel: open file descriptions, by index
    inodes,         \* kernel: file contents, by inode number
    fs,             \* kernel: path -> inode number, NoFile when the path does not exist
    issued,         \* history: handle -> mode and path of its open, until its close succeeds
    closedOk,       \* history: handles whose close returned closed:true
    created,        \* history: paths that a successful open named in a creating mode
    script,         \* the client: free, or the remaining steps of a scenario
    stage,          \* per stage: ChildMux.seq and whether its socket end is closed
    sock_in,        \* per stage: frames the stage wrote that run_mux has not read
    sock_out,       \* per stage: frames run_mux wrote to the stage socket
    children,       \* run_mux: MuxChild per stage (alive, buf)
    pending,        \* run_mux: mux id -> Pending {child_fd, child_id}
    req_seq,        \* run_mux: counter of forwarded requests
    up_q,           \* upstream socket: frames on their way to the broker
    down_q,         \* upstream socket: frames on their way back to run_mux
    stdio,          \* the invoking process's standard input, output and error
    fwdlog,         \* history: stage and stage-local id of each forwarded frame, in order
    answers,        \* history: the broker's responses, in order
    via,            \* history: per stage and delivered frame, the index of the answer (0: local)
    sent,           \* history: the frames a directly connected client pipelined, in order
    shim,           \* one call of ChildMux::write_chunk: its arguments, locals and result
    upstream,       \* the upstream socket: whether the broker holds its end, whether run_mux closed its own
    bridge,         \* one run of run_bridge: the two sockets and the two copy threads
    origin,         \* one run of the origin broker on a byte stream: the socket, its output, its exit
    wake,           \* run_mux at the level of reads: where it is, what the sockets hold
    spawner         \* llmsh running a script: its child processes and the statuses it took

ovars == <<origin, wake, spawner>>

-----------------------------------------------------------------------------
(* Bounds *)

MaxNext == 3        \* open is offered while State.next <= MaxNext
MaxFileLen == 1     \* a write is offered while the file stays this short
MaxFrames == 2        \* frames the stages of one pipeline send
MaxData == 3        \* bytes handed to one write_chunk call, or written by one peer of a bridge
BridgeBuf == 2      \* bytes one read of a copy loop returns at most (8192 in the source)
MuxBuf == 2         \* bytes one read of run_mux on the upstream socket returns at most (4096 in the source)
MaxLines == 2       \* lines of a script
MaxUnits == 2       \* stages of one pipeline of a script

(* Program constants *)

MAX_READ == 4096
ReservedMax == 2
InitialNext == 1

-----------------------------------------------------------------------------
(* Configuration of the broker under study: `-i in.txt -o out.txt` *)

allow_read  == <<"in.txt">>
allow_write == <<"out.txt">>
Paths == {"in.txt", "out.txt", "v"}
Modes == {"r", "w", "a", "rw"}
CreatingModes == {"w", "a", "rw"}

ByteA == 65
ByteB == 66
InTxt == <<ByteA>>      \* initial contents of the real file in.txt
NoFile == 0             \* fs[p] when no file is at path p

EmptyFn == [x \in {} |-> 0]
Put(f, k, v) == [x \in (DOMAIN f) \cup {k} |-> IF x = k THEN v ELSE f[x]]
Remove(f, k) == [x \in (DOMAIN f) \ {k} |-> f[x]]
Min(a, b) == IF a < b THEN a ELSE b

-----------------------------------------------------------------------------
(* base64, standard alphabet with padding.  A base64 text is a sequence    *)
(* of symbols: 0..63 are the alphabet, Pad is '=', BadSym any other char.  *)

Pad == 64
BadSym == 65

RECURSIVE B64Encode(_)
B64Encode(b) ==
    IF Len(b) = 0 THEN <<>>
    ELSE IF Len(b) = 1 THEN
        << b[1] \div 4, (b[1] % 4) * 16, Pad, Pad >>
    ELSE IF Len(b) = 2 THEN
        << b[1] \div 4, (b[1] % 4) * 16 + (b[2] \div 16), (b[2] % 16) * 4, Pad >>
    ELSE
        << b[1] \div 4, (b[1] % 4) * 16 + (b[2] \div 16),
           (b[2] % 16) * 4 + (b[3] \div 64), b[3] % 64 >>
        \o B64Encode(SubSeq(b, 4, Len(b)))

\* the bytes of one 4-symbol group, or <<-1>> when the group is malformed
B64Group(g, last) ==
    IF \E i \in 1..4 : g[i] = BadSym THEN <<-1>>
    ELSE IF g[1] = Pad \/ g[2] = Pad THEN <<-1>>
    ELSE IF g[3] = Pad THEN
        IF last /\ g[4] = Pad /\ g[2] % 16 = 0
        THEN << g[1] * 4 + (g[2] \div 16) >> ELSE <<-1>>
    ELSE IF g[4] = Pad THEN
        IF last /\ g[3] % 4 = 0
        THEN << g[1] * 4 + (g[2] \div 16), (g[2] % 16) * 16 + (g[3] \div 4) >>
        ELSE <<-1>>
    ELSE << g[1] * 4 + (g[2] \div 16), (g[2] % 16) * 16 + (g[3] \div 4),
            (g[3] % 4) * 64 + g[4] >>

RECURSIVE B64DecodeFrom(_)
B64DecodeFrom(s) ==
    IF Len(s) = 0 THEN [ok |-> TRUE, bytes |-> <<>>]
    ELSE IF Len(s) < 4 THEN [ok |-> FALSE, bytes |-> <<>>]
    ELSE LET g == B64Group(SubSeq(s, 1, 4), Len(s) = 4)
             rest == B64DecodeFrom(SubSeq(s, 5, Len(s)))
         IN  IF g = <<-1>> \/ ~rest.ok THEN [ok |-> FALSE, bytes |-> <<>>]
             ELSE [ok |-> TRUE, bytes |-> g \o rest.bytes]

B64Decode(s) == B64DecodeFrom(s)

-----------------------------------------------------------------------------
(* The kernel's file objects *)

\* read(2): up to max bytes at the description's position, which advances
FileRead(k, fd, max) ==
    LET o == k.ofds[fd]
        c == k.inodes[o.ino]
        n == IF o.pos >= Len(c) THEN 0 ELSE Min(max, Len(c) - o.pos)
    IN  [bytes |-> SubSeq(c, o.pos + 1, o.pos + n),
         ofds  |-> [k.ofds EXCEPT ![fd].pos = o.pos + n]]

ZeroFill(n) == [i \in 1..n |-> 0]

\* write(2): at the position, or at the end under O_APPEND; a gap left by a
\* position beyond the end reads as zero bytes
FileWrite(k, fd, data) ==
    LET o == k.ofds[fd]
        c == k.inodes[o.ino]
        at == IF o.app THEN Len(c) ELSE o.pos
        head == IF at <= Len(c) THEN SubSeq(c, 1, at)
                ELSE c \o ZeroFill(at - Len(c))
        tail == SubSeq(c, at + Len(data) + 1, Len(c))
    IN  IF Len(data) = 0 THEN [n |-> 0, ofds |-> k.ofds, inodes |-> k.inodes]
        ELSE [n |-> Len(data),
              ofds |-> [k.ofds EXCEPT ![fd].pos = at + Len(data)],
              inodes |-> [k.inodes EXCEPT ![o.ino] = head \o data \o tail]]

\* lseek(fd, 0, SEEK_END)
SeekEnd(k, fd) ==
    [k.ofds EXCEPT ![fd].pos = Len(k.inodes[k.ofds[fd].ino])]

\* lseek(fd, 0, SEEK_SET)
SeekStart(k, fd) == [k.ofds EXCEPT ![fd].pos = 0]

\* tempfile(): a fresh unnamed inode with one read-write description
new_virtual_file(k) ==
    [k EXCEPT !.inodes = Append(k.inodes, <<>>),
              !.ofds = Append(k.ofds, [ino |-> Len(k.inodes) + 1, pos |-> 0, app |-> FALSE])]

\* fcntl(fd, F_DUPFD): the new descriptor names the same open file description
DupFd(fd) == fd

\* open(2) of a real path: a new description on the path's inode
OsOpen(k, path, creat, trunc, app) ==
    LET exists == k.fs[path] # NoFile
        ino == IF exists THEN k.fs[path] ELSE Len(k.inodes) + 1
        inodes1 == IF exists
                   THEN (IF trunc THEN [k.inodes EXCEPT ![ino] = <<>>] ELSE k.inodes)
                   ELSE Append(k.inodes, <<>>)
    IN  IF ~exists /\ ~creat THEN [found |-> FALSE, k |-> k, fd |-> 0]
        ELSE [found |-> TRUE,
              fd |-> Len(k.ofds) + 1,
              k |-> [k EXCEPT !.inodes = inodes1,
                              !.fs = [k.fs EXCEPT ![path] = ino],
                              !.ofds = Append(k.ofds, [ino |-> ino, pos |-> 0, app |-> app])]]

\* close(2) as run by dropping a File: a description no descriptor names any
\* more is released, and so is an unnamed inode that no description has open
Released == [ino |-> 0, pos |-> 0, app |-> FALSE]
Reap(st) ==
    LET live == {st.handles[h].file : h \in DOMAIN st.handles}
                \cup {st.virtual_files[p].file : p \in DOMAIN st.virtual_files}
        ofds1 == [i \in 1..Len(st.ofds) |-> IF i \in live THEN st.ofds[i] ELSE Released]
        used == {ofds1[i].ino : i \in 1..Len(ofds1)} \cup {st.fs[p] : p \in DOMAIN st.fs}
    IN  [st EXCEPT !.ofds = ofds1,
                   !.inodes = [i \in 1..Len(st.inodes) |->
                                  IF i \in used THEN st.inodes[i] ELSE <<>>]]

-----------------------------------------------------------------------------
(* Broker: State, responses *)

State == [next |-> next, handles |-> handles, virtual_files |-> virtual_files,
          ofds |-> ofds, inodes |-> inodes, fs |-> fs]

ok(id, result) == [id |-> id, ok |-> TRUE, result |-> result]
\* mutant of err: an error response does not echo the request's id
err_NoId(id, code, msg) == [id |-> "?", ok |-> FALSE, error |-> [code |-> code, message |-> msg]]

err(id, code, msg) == [id |-> id, ok |-> FALSE, error |-> [code |-> code, message |-> msg]]
unsupported_with(id, op) == err(id, "E_UNSUPPORTED", op)

path_allowed(list, path) == \E i \in 1..Len(list) : list[i] = path

\* mutant of alloc: the lowest id not in the table is handed out, as the
\* kernel does with descriptors
alloc_LowestFree(st, kind) ==
    LET h == CHOOSE n \in InitialNext..st.next :
                 /\ n \notin DOMAIN st.handles
                 /\ \A m \in InitialNext..(n - 1) : m \in DOMAIN st.handles
    IN  [h |-> h,
         st |-> [st EXCEPT !.next = IF h = st.next THEN st.next + 1 ELSE st.next,
                           !.handles = Put(st.handles, h, kind)]]

\* State::alloc
alloc(st, kind) ==
    [h |-> st.next,
     st |-> [st EXCEPT !.next = st.next + 1,
                       !.handles = Put(st.handles, st.next, kind)]]

HandleKind(file, readable, writable, append) ==
    [file |-> file, readable |-> readable, writable |-> writable, append |-> append]

\* mutant of ModeFlags: mode a sets append and forgets writable
ModeFlags_AppendOnly(mode) ==
    CASE mode = "r"  -> [readable |-> TRUE,  writable |-> FALSE, append |-> FALSE,
                         need_existing |-> TRUE,  create |-> FALSE, truncate |-> FALSE]
      [] mode = "w"  -> [readable |-> FALSE, writable |-> TRUE,  append |-> FALSE,
                         need_existing |-> FALSE, create |-> TRUE,  truncate |-> TRUE]
      [] mode = "a"  -> [readable |-> FALSE, writable |-> FALSE, append |-> TRUE,
                         need_existing |-> FALSE, create |-> TRUE,  truncate |-> FALSE]
      [] mode = "rw" -> [readable |-> TRUE,  writable |-> TRUE,  append |-> FALSE,
                         need_existing |-> FALSE, create |-> TRUE,  truncate |-> FALSE]

\* the flag tuple of handle(), by mode
ModeFlags(mode) ==
    CASE mode = "r"  -> [readable |-> TRUE,  writable |-> FALSE, append |-> FALSE,
                         need_existing |-> TRUE,  create |-> FALSE, truncate |-> FALSE]
      [] mode = "w"  -> [readable |-> FALSE, writable |-> TRUE,  append |-> FALSE,
                         need_existing |-> FALSE, create |-> TRUE,  truncate |-> TRUE]
      [] mode = "a"  -> [readable |-> FALSE, writable |-> TRUE,  append |-> TRUE,
                         need_existing |-> FALSE, create |-> TRUE,  truncate |-> FALSE]
      [] mode = "rw" -> [readable |-> TRUE,  writable |-> TRUE,  append |-> FALSE,
                         need_existing |-> FALSE, create |-> TRUE,  truncate |-> FALSE]

Has(r, key) == key \in DOMAIN r.params

\* A JSON integer n stands in params as h = n mod 2^32, with h_hi = n div 2^32
\* beside it when n is 2^32 or more.
\* Value::as_u64 on params.h
as_u64(pm) == [hi |-> IF "h_hi" \in DOMAIN pm THEN pm.h_hi ELSE 0, lo |-> pm.h]
\* `v as u32`: the low 32 bits of a u64
as_u32(v) == v.lo

\* a JSON value that is not a string, where the code asks for one with as_str
NotStr == "<not a string>"

\* params.get(key).and_then(|v| v.as_str()) is Some
HasStr(r, key) == Has(r, key) /\ r.params[key] # NotStr
Out(st, rsp) == [st |-> st, resp |-> rsp]

\* "open", allowlisted branch: the real file at path
OpenReal(st, id, path, f) ==
    IF f.need_existing THEN
        LET o == OsOpen(st, path, FALSE, FALSE, FALSE) IN
        IF o.found THEN
            LET a == alloc(o.k, HandleKind(o.fd, f.readable, FALSE, FALSE))
            IN  Out(a.st, ok(id, [handle |-> a.h]))
        ELSE Out(st, err(id, "E_NOENT", "not found"))
    ELSE
        LET o == OsOpen(st, path, f.create, f.truncate, f.append) IN
        IF o.found THEN
            LET a == alloc(o.k, HandleKind(o.fd, f.readable, f.writable, f.append))
            IN  Out(a.st, ok(id, [handle |-> a.h]))
        ELSE Out(st, err(id, "E_NOENT", "not found"))

\* mutant of OpenVirtual: mode r creates the missing entry like the other modes
OpenVirtual_CreatesOnRead(st, id, path, f) ==
    LET st1 == IF path \in DOMAIN st.virtual_files THEN st
               ELSE LET k == new_virtual_file(st)
                    IN  [k EXCEPT !.virtual_files =
                             Put(st.virtual_files, path, [file |-> Len(k.ofds)])]
        dup_file == DupFd(st1.virtual_files[path].file)
        a == alloc(st1, HandleKind(dup_file, f.readable, f.writable, f.append))
    IN  Out(a.st, ok(id, [handle |-> a.h]))

\* "open", virtual branch: the anonymous backing of path
OpenVirtual(st, id, path, f) ==
    IF f.need_existing THEN
        IF path \notin DOMAIN st.virtual_files
        THEN Out(st, err(id, "E_NOENT", "virtual not found"))
        ELSE LET dup_file == DupFd(st.virtual_files[path].file)
                 st1 == [st EXCEPT !.ofds = SeekStart(st, dup_file)]
                 a == alloc(st1, HandleKind(dup_file, TRUE, FALSE, FALSE))
             IN  Out(a.st, ok(id, [handle |-> a.h]))
    ELSE
        LET st1 == IF path \in DOMAIN st.virtual_files THEN st
                   ELSE LET k == new_virtual_file(st)
                        IN  [k EXCEPT !.virtual_files =
                                 Put(st.virtual_files, path, [file |-> Len(k.ofds)])]
            st2 == IF f.truncate /\ ~f.append
                   THEN LET k == new_virtual_file(st1)
                        IN  Reap([k EXCEPT !.virtual_files[path] = [file |-> Len(k.ofds)]])
                   ELSE st1
            dup_file == DupFd(st2.virtual_files[path].file)
            a == alloc(st2, HandleKind(dup_file, f.readable, f.writable, f.append))
        IN  Out(a.st, ok(id, [handle |-> a.h]))

\* mutant of HandleOpen: a mode that is none of r, w, a, rw keeps the flags'
\* initial values and the open goes on
HandleOpen_AnyMode(st, r) ==
    IF ~HasStr(r, "path") THEN Out(st, err(r.id, "E_ARG", "missing path"))
    ELSE IF ~HasStr(r, "mode") THEN Out(st, err(r.id, "E_ARG", "missing mode"))
    ELSE LET path == r.params.path
             mode == r.params.mode
             f == IF mode \in Modes THEN ModeFlags(mode)
                  ELSE [readable |-> FALSE, writable |-> FALSE, append |-> FALSE,
                        need_existing |-> FALSE, create |-> TRUE, truncate |-> FALSE]
         IN  IF path_allowed(allow_read, path) \/ path_allowed(allow_write, path)
             THEN OpenReal(st, r.id, path, f)
             ELSE OpenVirtual(st, r.id, path, f)

HandleOpen(st, r) ==
    IF ~HasStr(r, "path") THEN Out(st, err(r.id, "E_ARG", "missing path"))
    ELSE IF ~HasStr(r, "mode") THEN Out(st, err(r.id, "E_ARG", "missing mode"))
    ELSE LET path == r.params.path
             mode == r.params.mode
             allow_readable == path_allowed(allow_read, path) \/ path_allowed(allow_write, path)
             allow_writable == path_allowed(allow_write, path)
             is_allowlisted == allow_readable \/ allow_writable
         IN  IF mode \notin Modes THEN Out(st, err(r.id, "E_ARG", "invalid mode"))
             ELSE IF is_allowlisted THEN OpenReal(st, r.id, path, ModeFlags(mode))
             ELSE OpenVirtual(st, r.id, path, ModeFlags(mode))

\* mutant of HandleRead: a read refused for the handle's mode also drops the handle
HandleRead_DropsUnreadable(st, r) ==
    IF ~Has(r, "h") THEN Out(st, err(r.id, "E_ARG", "missing h"))
    ELSE LET h == as_u32(as_u64(r.params))
             max_req == IF Has(r, "max") THEN r.params.max ELSE MAX_READ
             max == Min(max_req, MAX_READ)
         IN  IF max = 0 THEN Out(st, err(r.id, "E_ARG", "max must be > 0"))
             ELSE IF h <= ReservedMax
                  THEN Out(st, err(r.id, "E_PERM", "reserved handle not allowed"))
             ELSE IF h \notin DOMAIN st.handles
                  THEN Out(st, err(r.id, "E_CLOSED", "invalid handle"))
             ELSE IF ~st.handles[h].readable
                  THEN Out([st EXCEPT !.handles = Remove(st.handles, h)],
                           err(r.id, "E_PERM", "not readable"))
             ELSE LET rd == FileRead(st, st.handles[h].file, max)
                  IN  Out([st EXCEPT !.ofds = rd.ofds],
                          ok(r.id, [eof |-> Len(rd.bytes) = 0, data |-> B64Encode(rd.bytes)]))

\* mutant of HandleRead: max is not checked against 0
HandleRead_ZeroMax(st, r) ==
    IF ~Has(r, "h") THEN Out(st, err(r.id, "E_ARG", "missing h"))
    ELSE LET h == as_u32(as_u64(r.params))
             max == Min(IF Has(r, "max") THEN r.params.max ELSE MAX_READ, MAX_READ)
         IN  IF h <= ReservedMax
             THEN Out(st, err(r.id, "E_PERM", "reserved handle not allowed"))
             ELSE IF h \notin DOMAIN st.handles
                  THEN Out(st, err(r.id, "E_CLOSED", "invalid handle"))
             ELSE IF ~st.handles[h].readable
                  THEN Out(st, err(r.id, "E_PERM", "not readable"))
             ELSE LET rd == FileRead(st, st.handles[h].file, max)
                  IN  Out([st EXCEPT !.ofds = rd.ofds],
                          ok(r.id, [eof |-> Len(rd.bytes) = 0, data |-> B64Encode(rd.bytes)]))

\* mutant of HandleRead: the handle's readable flag is not looked at
HandleRead_AnyMode(st, r) ==
    IF ~Has(r, "h") THEN Out(st, err(r.id, "E_ARG", "missing h"))
    ELSE LET h == as_u32(as_u64(r.params))
             max == Min(IF Has(r, "max") THEN r.params.max ELSE MAX_READ, MAX_READ)
         IN  IF max = 0 THEN Out(st, err(r.id, "E_ARG", "max must be > 0"))
             ELSE IF h <= ReservedMax
                  THEN Out(st, err(r.id, "E_PERM", "reserved handle not allowed"))
             ELSE IF h \notin DOMAIN st.handles
                  THEN Out(st, err(r.id, "E_CLOSED", "invalid handle"))
             ELSE LET rd == FileRead(st, st.handles[h].file, max)
                  IN  Out([st EXCEPT !.ofds = rd.ofds],
                          ok(r.id, [eof |-> Len(rd.bytes) = 0, data |-> B64Encode(rd.bytes)]))

HandleRead(st, r) ==
    IF ~Has(r, "h") THEN Out(st, err(r.id, "E_ARG", "missing h"))
    ELSE LET h == as_u32(as_u64(r.params))
             max_req == IF Has(r, "max") THEN r.params.max ELSE MAX_READ
             max == Min(max_req, MAX_READ)
         IN  IF max = 0 THEN Out(st, err(r.id, "E_ARG", "max must be > 0"))
             ELSE IF h <= ReservedMax
                  THEN Out(st, err(r.id, "E_PERM", "reserved handle not allowed"))
             ELSE IF h \notin DOMAIN st.handles
                  THEN Out(st, err(r.id, "E_CLOSED", "invalid handle"))
             ELSE IF ~st.handles[h].readable
                  THEN Out(st, err(r.id, "E_PERM", "not readable"))
             ELSE LET rd == FileRead(st, st.handles[h].file, max)
                  IN  Out([st EXCEPT !.ofds = rd.ofds],
                          ok(r.id, [eof |-> Len(rd.bytes) = 0, data |-> B64Encode(rd.bytes)]))

\* mutant of HandleWrite: handles 0, 1, 2 are looked up like any other
HandleWrite_NoReserved(st, r) ==
    IF ~Has(r, "h") THEN Out(st, err(r.id, "E_ARG", "missing h"))
    ELSE IF ~HasStr(r, "data") THEN Out(st, err(r.id, "E_ARG", "missing data"))
    ELSE LET h == as_u32(as_u64(r.params))
             decoded == B64Decode(r.params.data)
         IN  IF h \notin DOMAIN st.handles
             THEN Out(st, err(r.id, "E_CLOSED", "invalid handle"))
             ELSE IF ~st.handles[h].writable
                  THEN Out(st, err(r.id, "E_PERM", "not writable"))
             ELSE IF ~decoded.ok THEN Out(st, err(r.id, "E_ARG", "bad base64"))
             ELSE LET fd == st.handles[h].file
                      st1 == IF st.handles[h].append
                             THEN [st EXCEPT !.ofds = SeekEnd(st, fd)] ELSE st
                      w == FileWrite(st1, fd, decoded.bytes)
                  IN  Out([st1 EXCEPT !.ofds = w.ofds, !.inodes = w.inodes],
                          ok(r.id, [written |-> w.n]))

HandleWrite(st, r) ==
    IF ~Has(r, "h") THEN Out(st, err(r.id, "E_ARG", "missing h"))
    ELSE IF ~HasStr(r, "data") THEN Out(st, err(r.id, "E_ARG", "missing data"))
    ELSE LET h == as_u32(as_u64(r.params))
             decoded == B64Decode(r.params.data)
         IN  IF h <= ReservedMax
             THEN Out(st, err(r.id, "E_PERM", "reserved handle not allowed"))
             ELSE IF h \notin DOMAIN st.handles
                  THEN Out(st, err(r.id, "E_CLOSED", "invalid handle"))
             ELSE IF ~st.handles[h].writable
                  THEN Out(st, err(r.id, "E_PERM", "not writable"))
             ELSE IF ~decoded.ok THEN Out(st, err(r.id, "E_ARG", "bad base64"))
             ELSE LET fd == st.handles[h].file
                      st1 == IF st.handles[h].append
                             THEN [st EXCEPT !.ofds = SeekEnd(st, fd)] ELSE st
                      w == FileWrite(st1, fd, decoded.bytes)
                  IN  Out([st1 EXCEPT !.ofds = w.ofds, !.inodes = w.inodes],
                          ok(r.id, [written |-> w.n]))

\* mutant of HandleClose: answers closed:true and leaves the entry in the table
HandleClose_KeepsEntry(st, r) ==
    IF ~Has(r, "h") THEN Out(st, err(r.id, "E_ARG", "missing h"))
    ELSE LET h == as_u32(as_u64(r.params))
         IN  IF h <= ReservedMax
             THEN Out(st, err(r.id, "E_PERM", "reserved handle not allowed"))
             ELSE IF h \in DOMAIN st.handles
                  THEN Out(st, ok(r.id, [closed |-> TRUE]))
             ELSE Out(st, err(r.id, "E_CLOSED", "invalid handle"))

HandleClose(st, r) ==
    IF ~Has(r, "h") THEN Out(st, err(r.id, "E_ARG", "missing h"))
    ELSE LET h == as_u32(as_u64(r.params))
         IN  IF h <= ReservedMax
             THEN Out(st, err(r.id, "E_PERM", "reserved handle not allowed"))
             ELSE IF h \in DOMAIN st.handles
                  THEN Out(Reap([st EXCEPT !.handles = Remove(st.handles, h)]),
                           ok(r.id, [closed |-> TRUE]))
             ELSE Out(st, err(r.id, "E_CLOSED", "invalid handle"))

\* fn handle(state, req) -> Response
handle(st, r) ==
    CASE r.op = "ping"  -> Out(st, ok(r.id, [pong |-> TRUE]))
      [] r.op = "init"  -> Out(st, ok(r.id, [status |-> "ready"]))
      [] r.op = "open"  -> HandleOpen(st, r)
      [] r.op = "read"  -> HandleRead(st, r)
      [] r.op = "write" -> HandleWrite(st, r)
      [] r.op = "close" -> HandleClose(st, r)
      [] OTHER          -> Out(st, unsupported_with(r.id, r.op))


-----------------------------------------------------------------------------
(* The client of the broker.  A free client sends any request of the        *)
(* bounded request sets; a scripted client sends the steps of one scenario, *)
(* naming in each step the handle that an earlier open of the script got.   *)

Hs == 0..(MaxNext + 1)
Maxes == {0, 1, 16}
TextA == B64Encode(<<ByteA>>)
TextB == B64Encode(<<ByteB>>)
BadText == <<16>>
NoParams == [x \in {} |-> 0]

Request(id, op, params) == [id |-> id, op |-> op, params |-> params]

PingReqs == {Request("1", "ping", NoParams)}
InitReqs == {Request("1", "init", NoParams)}
OtherReqs == {Request("1", "stat", [h |-> 3])}
FreePaths == {"in.txt", "v"}     \* the free client leaves out.txt to the scenarios
OpenReqs ==
    {Request("1", "open", pm) :
        pm \in [path : FreePaths \cup {NotStr}, mode : Modes \cup {"rr", NotStr}]
               \cup [path : FreePaths] \cup [mode : {"r"}]}
ReadReqs ==
    {Request("1", "read", pm) : pm \in [h : Hs, max : Maxes] \cup [h : Hs] \cup [max : Maxes]}
WriteReqs ==
    {Request("1", "write", pm) :
        pm \in [h : Hs, data : {TextA, BadText}] \cup [h : Hs] \cup [data : {TextA}]}
CloseReqs == {Request("1", "close", pm) : pm \in [h : Hs] \cup {NoParams}}

Requests == PingReqs \cup InitReqs \cup OtherReqs \cup OpenReqs \cup ReadReqs
            \cup WriteReqs \cup CloseReqs

NoResponse == [id |-> "0", ok |-> FALSE, error |-> [code |-> "none", message |-> ""]]
FreeClient == [free |-> TRUE, kind |-> "free", rest |-> <<>>, got |-> <<>>,
               last |-> NoResponse, arg |-> <<>>, burnt |-> 0]

\* a step of a script names a handle by the index of the open that returned it
Resolve(step, got) ==
    IF "href" \in DOMAIN step
    THEN Request(step.id, step.op,
                 [k \in (DOMAIN step.params) \cup {"h"} |->
                     IF k = "h" THEN got[step.href] ELSE step.params[k]])
    ELSE Request(step.id, step.op, step.params)

Offered(r) ==
    IF script.free THEN r \in Requests
    ELSE script.rest # <<>> /\ r = Resolve(Head(script.rest), script.got)

Fits(st) ==
    script.free =>
        /\ st.next <= MaxNext + 1
        /\ \A i \in 1..Len(st.inodes) : Len(st.inodes[i]) <= MaxFileLen

\* one turn of the origin serving loop: read one frame, dispatch, write one frame
Dispatch(r) ==
    LET out == handle(State, r)
        opened == r.op = "open" /\ out.resp.ok
    IN  /\ next' = out.st.next
        /\ handles' = out.st.handles
        /\ virtual_files' = out.st.virtual_files
        /\ ofds' = out.st.ofds
        /\ inodes' = out.st.inodes
        /\ fs' = out.st.fs
        /\ issued' = IF opened
                     THEN Put(issued, out.resp.result.handle,
                              [mode |-> r.params.mode, path |-> r.params.path])
                     ELSE IF r.op = "close" /\ out.resp.ok
                     THEN Remove(issued, r.params.h)
                     ELSE issued
        /\ closedOk' = IF r.op = "close" /\ out.resp.ok
                       THEN closedOk \cup {r.params.h} ELSE closedOk
        /\ created' = IF opened /\ r.params.mode \in CreatingModes
                      THEN created \cup {r.params.path} ELSE created
        /\ script' = IF script.free THEN script
                     ELSE [script EXCEPT
                             !.rest = Tail(@),
                             !.last = out.resp,
                             !.got = IF r.op = "open"
                                     THEN Append(@, IF out.resp.ok
                                                    THEN out.resp.result.handle ELSE 0)
                                     ELSE @]

muxvars == <<stage, sock_in, sock_out, children, pending, req_seq, up_q, down_q,
             stdio, fwdlog, answers, via, upstream>>

\* the broker serving a client that is wired to it directly
Serve(r) ==
    /\ Offered(r)
    /\ Fits(handle(State, r).st)
    /\ Dispatch(r)
    /\ UNCHANGED <<muxvars, sent, shim, bridge, ovars>>

AnyRequest(S) == IF script.free THEN S
                 ELSE IF script.rest = <<>> THEN {}
                 ELSE {Resolve(Head(script.rest), script.got)}

Ping == \E r \in AnyRequest(PingReqs) : r.op = "ping" /\ Serve(r)
InitOp == \E r \in AnyRequest(InitReqs) : r.op = "init" /\ Serve(r)
Open == \E r \in AnyRequest(OpenReqs) : r.op = "open" /\ Serve(r)
Read == \E r \in AnyRequest(ReadReqs) : r.op = "read" /\ Serve(r)
Write == \E r \in AnyRequest(WriteReqs) : r.op = "write" /\ Serve(r)
Close == \E r \in AnyRequest(CloseReqs) : r.op = "close" /\ Serve(r)
Unsupported ==
    \E r \in AnyRequest(OtherReqs) :
        r.op \notin {"ping", "init", "open", "read", "write", "close"} /\ Serve(r)

bvars == <<next, handles, virtual_files, ofds, inodes, fs, issued, closedOk, created, script>>
vars == <<bvars, muxvars, sent, shim, bridge, ovars>>

\* State::new, before the first frame; in.txt is on disk, out.txt and v are not
BrokerInit ==
    /\ next = InitialNext
    /\ handles = EmptyFn
    /\ virtual_files = EmptyFn
    /\ ofds = <<>>
    /\ inodes = <<InTxt>>
    /\ fs = [p \in Paths |-> IF p = "in.txt" THEN 1 ELSE NoFile]
    /\ issued = EmptyFn
    /\ closedOk = {}
    /\ created = {}


-----------------------------------------------------------------------------
(* Scenarios: the request sequences of the broker's tests and of the        *)
(* specification's end-to-end cases, each after a prefix of other requests. *)

StepOpen(path, mode) == [id |-> "1", op |-> "open", params |-> [path |-> path, mode |-> mode]]
StepRead(k, max) == [id |-> "1", op |-> "read", params |-> [max |-> max], href |-> k]
StepWrite(k, data) == [id |-> "1", op |-> "write", params |-> [data |-> data], href |-> k]
StepClose(k) == [id |-> "1", op |-> "close", params |-> NoParams, href |-> k]
StepPlain(op) == [id |-> "1", op |-> op, params |-> NoParams]

\* what the client did before the scenario, with the number of opens in it
Prefixes ==
    { [steps |-> <<>>, opens |-> 0],
      [steps |-> <<StepPlain("ping")>>, opens |-> 0],
      [steps |-> <<StepPlain("init")>>, opens |-> 0],
      [steps |-> <<StepPlain("stat")>>, opens |-> 0],
      [steps |-> <<StepOpen("in.txt", "r")>>, opens |-> 1],
      [steps |-> <<StepOpen("in.txt", "r"), StepOpen("in.txt", "r")>>, opens |-> 2] }

Payloads == {<<ByteA>>, <<ByteB>>, <<ByteA, ByteB>>}

\* open(p,"rw"), write(b), close, open(p,"rw"), read
RoundTrip(n, p, b) ==
    << StepOpen(p, "rw"), StepWrite(n + 1, B64Encode(b)), StepClose(n + 1),
       StepOpen(p, "rw"), StepRead(n + 2, 16) >>

\* open(p,"w"), write "A", close; open(p,"a"), write "B", close; open(p,"rw"), read 16
TruncAppend(n, p) ==
    << StepOpen(p, "w"), StepWrite(n + 1, TextA), StepClose(n + 1),
       StepOpen(p, "a"), StepWrite(n + 2, TextB), StepClose(n + 2),
       StepOpen(p, "rw"), StepRead(n + 3, 16) >>

\* open(p,"a"), write "A", write "B", close; open(p,"rw"), read 16
\* (append_and_then_read_via_rw); with `other`, a second handle reads in between
AppendTwice(n, p, other) ==
    IF other
    THEN << StepOpen(p, "a"), StepWrite(n + 1, TextA),
            StepOpen(p, "rw"), StepRead(n + 2, 16),
            StepWrite(n + 1, TextB), StepClose(n + 1),
            StepOpen(p, "rw"), StepRead(n + 3, 16) >>
    ELSE << StepOpen(p, "a"), StepWrite(n + 1, TextA), StepWrite(n + 1, TextB),
            StepClose(n + 1), StepOpen(p, "rw"), StepRead(n + 2, 16) >>

\* open(p,"rw"), write(b), read on the same handle (open_rw_create_then_write_and_read)
WriteRead(n, p, b) ==
    << StepOpen(p, "rw"), StepWrite(n + 1, B64Encode(b)), StepRead(n + 1, 16) >>

Scripted(kind, pre, steps, arg) ==
    [free |-> FALSE, kind |-> kind, rest |-> pre.steps \o steps, got |-> <<>>,
     last |-> NoResponse, arg |-> arg, burnt |-> pre.opens]

\* open(p,"r") alone (open_r_nonexistent_returns_noent)
OpenROnly(p) == << StepOpen(p, "r") >>

\* open(p,"rw"), close, read (close_then_access), then write and close again
CloseThenAccess(n, p) ==
    << StepOpen(p, "rw"), StepClose(n + 1), StepRead(n + 1, 16),
       StepWrite(n + 1, TextA), StepClose(n + 1) >>

\* open(p,m) and then the operation m does not permit (open_w_then_read_fails,
\* open_a_append_and_read_fails, write_on_read_only); a virtual path is
\* created first when m is "r"
WrongMode(n, p, m) ==
    IF m # "r" THEN << StepOpen(p, m), StepRead(n + 1, 16) >>
    ELSE IF p = "in.txt" THEN << StepOpen(p, m), StepWrite(n + 1, TextA) >>
    ELSE << StepOpen(p, "rw"), StepOpen(p, m), StepWrite(n + 2, TextA) >>

\* open(p,"r"), read with max 0 (read_max_zero)
ReadMaxZero(n, p) == << StepOpen(p, "r"), StepRead(n + 1, 0) >>

\* open(p,"rr") alone (invalid_mode)
InvalidMode(p) == << StepOpen(p, "rr") >>

\* one read, write or close that names handle h outright
ReservedAccess(op, h) ==
    << Request("1", op, CASE op = "read" -> [h |-> h, max |-> 16]
                          [] op = "write" -> [h |-> h, data |-> TextA]
                          [] op = "close" -> [h |-> h]) >>

Scenarios ==
    {Scripted("open_r", pre, OpenROnly("v"), <<>>) : pre \in Prefixes}
    \cup {Scripted("reserved", pre, ReservedAccess(op, h), <<>>) :
        pre \in Prefixes, op \in {"read", "write", "close"}, h \in 0..ReservedMax}
    \cup {Scripted("invalid_mode", pre, InvalidMode(p), <<>>) :
        pre \in Prefixes, p \in {"in.txt", "v"}}
    \cup {Scripted("read_max_zero", pre, ReadMaxZero(pre.opens, "in.txt"), <<>>) :
        pre \in Prefixes}
    \cup {Scripted("wrong_mode", pre, WrongMode(pre.opens, pm[1], pm[2]), <<>>) :
        pre \in Prefixes,
        pm \in {<<"out.txt", "w">>, <<"out.txt", "a">>, <<"v", "w">>, <<"v", "a">>,
                <<"in.txt", "r">>, <<"v", "r">>}}
    \cup {Scripted("close_then_access", pre, CloseThenAccess(pre.opens, "v"), <<>>) :
        pre \in Prefixes}
    \cup {Scripted("roundtrip", pre, RoundTrip(pre.opens, "v", b), b) :
        pre \in Prefixes, b \in Payloads}
    \cup {Scripted("write_read", pre, WriteRead(pre.opens, "v", b), b) :
        pre \in Prefixes, b \in Payloads}
    \cup {Scripted("truncappend", pre, TruncAppend(pre.opens, "v"), <<ByteA, ByteB>>) :
        pre \in Prefixes}
    \cup {Scripted("appendtwice", pre, AppendTwice(pre.opens, p, other), <<ByteA, ByteB>>) :
        pre \in Prefixes, p \in {"out.txt", "v"}, other \in BOOLEAN}

\* the pipeline's stages and the multiplexer's state at the start of run_mux
\* no write_chunk call is under way
NoCall == [pc |-> "idle"]
\* run_bridge is not running: the broker is in origin mode
NoBridge == [pc |-> "origin"]
\* the origin broker is not looked at byte by byte
NoOrigin == [pc |-> "frames"]
\* run_mux is not looked at read by read
NoWake == [pc |-> "frames"]
\* no script is running
NoSpawner == [pc |-> "idle"]
IdleOthers == origin = NoOrigin /\ wake = NoWake /\ spawner = NoSpawner

Stages == {1, 2}
NoH == -1                       \* a frame without a numeric params.h
StdinBytes == <<ByteA>>
BadJson == [id |-> "", op |-> "<bad json>", params |-> NoParams]
IsJson(f) == f.op # "<bad json>"
\* a JSON object without the field "op": serde cannot make a Request of it
NoOp == "<no op>"
IsRequest(f) == IsJson(f) /\ f.op # NoOp

\* what a stage may write to its socket, before the id is filled in
StageFrames ==
    {Request("", "ping", NoParams),
     Request("", "open", [path |-> "v", mode |-> "rw"]),
     Request("", "read", [h |-> 0, max |-> 16]),
     Request("", "read", [h |-> 1, max |-> 16]),
     Request("", "write", [h |-> 0, data |-> TextA]),
     Request("", "write", [h |-> 1, data |-> TextA]),
     Request("", "close", [h |-> 2]),
     Request("", "close", [h |-> 3]),
     Request("", "stat", [h |-> 0]),
     BadJson}

\* ChildMux::next_id
next_id(seq) == ToString(seq + 1)

\* run_mux, start of the loop
MuxInit ==
    /\ stage = [i \in Stages |-> [seq |-> 0, closed |-> FALSE]]
    /\ sock_in = [i \in Stages |-> <<>>]
    /\ sock_out = [i \in Stages |-> <<>>]
    /\ children = [i \in Stages |-> [alive |-> TRUE, buf |-> <<>>]]
    /\ pending = EmptyFn
    /\ req_seq = 0
    /\ up_q = <<>>
    /\ down_q = <<>>
    /\ stdio = [stdin |-> StdinBytes, stdout |-> <<>>, stderr |-> <<>>, broken |-> {}]
    /\ fwdlog = <<>>
    /\ answers = <<>>
    /\ via = [i \in Stages |-> <<>>]
    /\ upstream = [alive |-> TRUE, closed |-> FALSE]

\* no client is wired to the broker directly and no write_chunk call is under way
IdleInit ==
    /\ sent = <<>>
    /\ shim = NoCall
    /\ bridge = NoBridge
    /\ IdleOthers

\* the broker serves one client: a free one, or one that runs a scenario
Init ==
    /\ BrokerInit
    /\ MuxInit
    /\ IdleInit
    /\ script \in {FreeClient} \cup Scenarios

Next == Ping \/ InitOp \/ Open \/ Read \/ Write \/ Close \/ Unsupported

Spec == Init /\ [][Next]_vars

\* the scenario has run to its end; its last response is in script.last
Finished(kind) == ~script.free /\ script.kind = kind /\ script.rest = <<>>
LastData == B64Decode(script.last.result.data).bytes

-----------------------------------------------------------------------------
(* The multiplexer (llmsh-rs/src/mux.rs, run_mux) between the stages of a   *)
(* pipeline and one broker.  A frame is a whole JSON document; the length   *)
(* prefix and partial reads are not modelled.  Standard input is a file     *)
(* with fixed contents; stdio.broken names the standard streams on which a  *)
(* read, or a write of at least one byte, fails.                            *)

Mux == [pending |-> pending, req_seq |-> req_seq, up_q |-> up_q, sock_out |-> sock_out,
        stdio |-> stdio, fwdlog |-> fwdlog, via |-> via,
        buf |-> [i \in Stages |-> children[i].buf]]

\* mutant of ToChild: the frame lands on the stage's socket whether or not
\* the stage still holds its end
ToChild_Always(m, i, rsp, k) ==
    [m EXCEPT !.sock_out[i] = Append(@, rsp), !.via[i] = Append(@, k)]

\* write_all_fd on a stage socket; it fails, and is ignored, once the stage closed its end
ToChild(m, i, rsp, k) ==
    IF stage[i].closed THEN m
    ELSE [m EXCEPT !.sock_out[i] = Append(@, rsp), !.via[i] = Append(@, k)]

\* params.h as run_mux reads it
MuxH(f) == IF Has(f, "h") THEN as_u32(as_u64(f.params)) ELSE NoH

\* a multiplexer that forwards a frame under the id its stage chose
mux_id_Reused(seq, child_id) == child_id

\* the id run_mux gives a forwarded frame
mux_id(seq, child_id) == ToString(seq)

\* read on handle 0: served from the process's standard input
LocalRead(m, i, f) ==
    LET max == Min(IF Has(f, "max") THEN f.params.max ELSE MAX_READ, MAX_READ)
        n == IF "stdin" \in m.stdio.broken THEN 0 ELSE Min(max, Len(m.stdio.stdin))
        buf == SubSeq(m.stdio.stdin, 1, n)
        m1 == [m EXCEPT !.stdio.stdin = SubSeq(@, n + 1, Len(@))]
    IN  ToChild(m1, i, ok(f.id, [eof |-> n = 0, data |-> B64Encode(buf), reserved |-> TRUE]), 0)

\* write on handle 1 or 2: written to the process's standard output or error
LocalWrite(m, i, f) ==
    LET d == IF Has(f, "data") THEN B64Decode(f.params.data) ELSE [ok |-> TRUE, bytes |-> <<>>]
        decoded == IF d.ok THEN d.bytes ELSE <<>>
        to == IF MuxH(f) = 1 THEN "stdout" ELSE "stderr"
        w == IF to \in m.stdio.broken THEN 0 ELSE Len(decoded)
        m1 == IF w = 0 THEN m
              ELSE IF to = "stdout" THEN [m EXCEPT !.stdio.stdout = @ \o decoded]
              ELSE [m EXCEPT !.stdio.stderr = @ \o decoded]
    IN  ToChild(m1, i, ok(f.id, [written |-> w, reserved |-> TRUE]), 0)

\* any other frame: new id, remember the sender, write upstream; the write
\* fails once the broker has let go of its end of the socket
Forward(m, i, f) ==
    LET seq == m.req_seq + 1
        id == mux_id(seq, f.id)
    IN  [m EXCEPT !.req_seq = seq,
                  !.pending = Put(@, id, [child_fd |-> i, child_id |-> f.id]),
                  !.up_q = IF upstream.alive THEN Append(@, [f EXCEPT !.id = id]) ELSE @,
                  !.fwdlog = Append(@, [stage |-> i, child_id |-> f.id, frame |-> f,
                                        clash |-> \E q \in DOMAIN m.pending :
                                                     m.pending[q].child_id = f.id,
                                        written |-> upstream.alive])]

\* mutant of ChildFrame: close is not intercepted for the reserved handles
ChildFrame_CloseForwarded(m, i, f) ==
    IF ~IsJson(f) THEN m
    ELSE IF f.op = "read" /\ MuxH(f) = 0 THEN LocalRead(m, i, f)
    ELSE IF f.op = "write" /\ MuxH(f) \in {1, 2} THEN LocalWrite(m, i, f)
    ELSE IF f.op = "write" /\ MuxH(f) = 0
        THEN ToChild(m, i, err(f.id, "E_PERM", "not writable"), 0)
    ELSE Forward(m, i, f)

\* run_mux, one frame extracted from a stage's buffer
ChildFrame(m, i, f) ==
    IF ~IsJson(f) THEN m
    ELSE IF f.op = "read" /\ MuxH(f) = 0 THEN LocalRead(m, i, f)
    ELSE IF f.op = "write" /\ MuxH(f) \in {1, 2} THEN LocalWrite(m, i, f)
    ELSE IF f.op = "write" /\ MuxH(f) = 0
        THEN ToChild(m, i, err(f.id, "E_PERM", "not writable"), 0)
    ELSE IF f.op = "close" /\ MuxH(f) # NoH /\ MuxH(f) <= ReservedMax
        THEN ToChild(m, i, ok(f.id, [closed |-> TRUE, reserved |-> TRUE]), 0)
    ELSE Forward(m, i, f)

\* the step from m to m1 ended in a failed write to the upstream socket
Broke(m, m1) ==
    /\ Len(m1.fwdlog) > Len(m.fwdlog)
    /\ ~m1.fwdlog[Len(m1.fwdlog)].written

\* mutant of ChildFrames: a frame that is no JSON ends the extraction and
\* the rest of the buffer is thrown away
RECURSIVE ChildFrames_StopAtBad(_, _, _)
ChildFrames_StopAtBad(m, i, fs_) ==
    IF fs_ = <<>> \/ ~IsJson(Head(fs_)) THEN [m EXCEPT !.buf[i] = <<>>]
    ELSE LET m1 == ChildFrame(m, i, Head(fs_))
         IN  IF Broke(m, m1) THEN [m1 EXCEPT !.buf[i] = Tail(fs_)]
             ELSE ChildFrames_StopAtBad(m1, i, Tail(fs_))

\* run_mux, the loop that extracts frames from a stage's buffer: it runs to
\* the end of the buffer, or breaks at a failed upstream write and leaves
\* the rest of the buffer where it is
RECURSIVE ChildFrames(_, _, _)
ChildFrames(m, i, fs_) ==
    IF fs_ = <<>> THEN [m EXCEPT !.buf[i] = <<>>]
    ELSE LET m1 == ChildFrame(m, i, Head(fs_))
         IN  IF Broke(m, m1) THEN [m1 EXCEPT !.buf[i] = Tail(fs_)]
             ELSE ChildFrames(m1, i, Tail(fs_))

\* mutant of UpstreamFrame: the entry of a delivered response stays in pending
UpstreamFrame_KeepsEntry(m, v, k) ==
    IF v.id \in DOMAIN m.pending
    THEN LET p == m.pending[v.id]
         IN  ToChild(m, p.child_fd, [v EXCEPT !.id = p.child_id], k)
    ELSE m

\* mutant of UpstreamFrame: a response nobody waits for goes to the first stage
UpstreamFrame_StrayToFirst(m, v, k) ==
    IF v.id \in DOMAIN m.pending
    THEN LET p == m.pending[v.id]
             m1 == [m EXCEPT !.pending = Remove(@, v.id)]
         IN  ToChild(m1, p.child_fd, [v EXCEPT !.id = p.child_id], k)
    ELSE ToChild(m, 1, v, k)

\* run_mux, one frame parsed from the upstream buffer; k counts the upstream frames
UpstreamFrame(m, v, k) ==
    IF v.id \in DOMAIN m.pending
    THEN LET p == m.pending[v.id]
             m1 == [m EXCEPT !.pending = Remove(@, v.id)]
         IN  ToChild(m1, p.child_fd, [v EXCEPT !.id = p.child_id], k)
    ELSE m

RECURSIVE UpstreamFrames(_, _, _)
UpstreamFrames(m, vs, k) ==
    IF vs = <<>> THEN m
    ELSE UpstreamFrames(UpstreamFrame(m, Head(vs), k), Tail(vs), k + 1)

\* mutant of Running: the loop looks at the first stage only
Running_FirstOnly == children[1].alive

\* run_mux, the loop condition
Running == \E i \in Stages : children[i].alive

SetMux(m) ==
    /\ pending' = m.pending
    /\ req_seq' = m.req_seq
    /\ up_q' = m.up_q
    /\ sock_out' = m.sock_out
    /\ stdio' = m.stdio
    /\ fwdlog' = m.fwdlog
    /\ via' = m.via

RECURSIVE SumSeq(_)
SumSeq(S) == IF S = {} THEN 0
             ELSE LET i == CHOOSE x \in S : TRUE IN stage[i].seq + SumSeq(S \ {i})

\* frames the stages have sent so far
Sent == SumSeq(Stages)

\* a stage writes one request frame to its socket
StageSend(i, f) ==
    /\ ~stage[i].closed
    /\ Sent < MaxFrames
    /\ stage' = [stage EXCEPT ![i].seq = @ + 1]
    /\ sock_in' = [sock_in EXCEPT ![i] =
                     Append(@, IF IsJson(f) THEN [f EXCEPT !.id = next_id(stage[i].seq)] ELSE f)]
    /\ UNCHANGED <<bvars, sent, shim, upstream, bridge, ovars, sock_out, children, pending, req_seq, up_q, down_q,
                   stdio, fwdlog, answers, via>>

\* a stage exits, closing its end of the socket
StageExit(i) ==
    /\ ~stage[i].closed
    /\ stage' = [stage EXCEPT ![i].closed = TRUE]
    /\ UNCHANGED <<bvars, sent, shim, upstream, bridge, ovars, sock_in, sock_out, children, pending, req_seq, up_q, down_q,
                   stdio, fwdlog, answers, via>>

\* run_mux, an event on a live stage's socket
MuxChildEvent(i) ==
    /\ Running
    /\ children[i].alive
    /\ IF stage[i].closed
       THEN /\ children' = [children EXCEPT ![i].alive = FALSE]
            /\ sock_in' = [sock_in EXCEPT ![i] = <<>>]
            /\ UNCHANGED <<pending, req_seq, up_q, sock_out, stdio, fwdlog, via>>
       ELSE /\ sock_in[i] # <<>>
            /\ LET m == ChildFrames(Mux, i, children[i].buf \o sock_in[i])
               IN  /\ SetMux(m)
                   /\ children' = [children EXCEPT ![i].buf = m.buf[i]]
            /\ sock_in' = [sock_in EXCEPT ![i] = <<>>]
    /\ UNCHANGED <<bvars, sent, shim, upstream, bridge, ovars, stage, down_q, answers>>

\* run_mux, the upstream socket is readable
MuxUpstreamEvent ==
    /\ Running
    /\ upstream.alive
    /\ down_q # <<>>
    /\ SetMux(UpstreamFrames(Mux, down_q, Len(answers) - Len(down_q) + 1))
    /\ down_q' = <<>>
    /\ UNCHANGED <<bvars, sent, shim, upstream, bridge, ovars, stage, sock_in, children, answers>>

\* the broker's serving loop, wired to the multiplexer
\* a frame that is no Request is answered under the id "?"; a response that
\* cannot be written, because run_mux has closed the socket, ends the broker
BrokerServe ==
    /\ upstream.alive
    /\ up_q # <<>>
    /\ LET f == Head(up_q)
           rsp == IF IsRequest(f) THEN handle(State, f).resp
                  ELSE err("?", "E_ARG", "invalid json")
       IN  /\ IF IsRequest(f) THEN Dispatch(f) ELSE UNCHANGED bvars
           /\ IF upstream.closed
              THEN /\ upstream' = [upstream EXCEPT !.alive = FALSE]
                   /\ UNCHANGED <<down_q, answers>>
              ELSE /\ down_q' = Append(down_q, rsp)
                   /\ answers' = Append(answers, rsp)
                   /\ UNCHANGED upstream
    /\ up_q' = Tail(up_q)
    /\ UNCHANGED <<stage, sock_in, sock_out, children, pending, req_seq, stdio, fwdlog, via,
                   sent, shim, bridge, ovars>>

MuxSpecInit ==
    /\ BrokerInit
    /\ MuxInit
    /\ IdleInit
    /\ script = FreeClient

MuxNext ==
    \/ \E i \in Stages, f \in StageFrames : StageSend(i, f)
    \/ \E i \in Stages : StageExit(i)
    \/ \E i \in Stages : MuxChildEvent(i)
    \/ MuxUpstreamEvent
    \/ BrokerServe

MuxSpec == MuxSpecInit /\ [][MuxNext]_vars

-----------------------------------------------------------------------------
(* run_mux to its end, with a broker that may go away under it.             *)

\* the broker process ends (read_frame sees EOF or fails, or it is killed):
\* its end of the upstream socket is closed
BrokerExit ==
    /\ upstream.alive
    /\ upstream' = [upstream EXCEPT !.alive = FALSE]
    /\ UNCHANGED <<bvars, sent, shim, bridge, ovars, stage, sock_in, sock_out, children, pending,
                   req_seq, up_q, down_q, stdio, fwdlog, answers, via>>

\* run_mux, after the loop: no stage is alive, the sockets are closed
MuxReturn ==
    /\ ~Running
    /\ ~upstream.closed
    /\ upstream' = [upstream EXCEPT !.closed = TRUE]
    /\ UNCHANGED <<bvars, sent, shim, bridge, ovars, stage, sock_in, sock_out, children, pending,
                   req_seq, up_q, down_q, stdio, fwdlog, answers, via>>

\* what a stage writes in these runs: a request the broker answers, and an
\* object the broker cannot parse
LoopFrames ==
    {Request("", "ping", NoParams),
     Request("", NoOp, NoParams)}

LoopNext ==
    \/ \E i \in Stages, f \in LoopFrames : StageSend(i, f)
    \/ \E i \in Stages : StageExit(i)
    \/ \E i \in Stages : MuxChildEvent(i)
    \/ MuxUpstreamEvent
    \/ BrokerServe
    \/ BrokerExit
    \/ MuxReturn

\* poll reports a stage socket with data or a hangup at every wake, and the
\* loop takes up every reported socket
LoopFairness ==
    /\ \A i \in Stages : WF_vars(MuxChildEvent(i))
    /\ WF_vars(MuxReturn)

LoopSpec == MuxSpecInit /\ [][LoopNext]_vars /\ LoopFairness

-----------------------------------------------------------------------------
(* One client wired to the broker's socket, writing requests ahead of the   *)
(* responses (Conn::send_many).  The socket's two directions are up_q and   *)
(* down_q; the multiplexer is not there.                                    *)

ConnIds == {"1", "2"}

\* well-formed requests, before the id is filled in
ConnReqs ==
    {Request("", "ping", NoParams),
     Request("", "stat", NoParams),
     Request("", "open", [path |-> "v", mode |-> "rw"]),
     Request("", "open", [path |-> "v"]),
     Request("", "read", [h |-> 1, max |-> 16]),
     Request("", "read", [h |-> 3, max |-> 16]),
     Request("", "write", [h |-> 3, data |-> TextA]),
     Request("", "write", [h |-> 3, data |-> BadText]),
     Request("", "close", [h |-> 3])}

\* send_many, write loop: one more frame goes out before any response is read
ConnSend(r, id) ==
    /\ Len(sent) < MaxFrames
    /\ up_q' = Append(up_q, [r EXCEPT !.id = id])
    /\ sent' = Append(sent, [r EXCEPT !.id = id])
    /\ UNCHANGED <<bvars, stage, sock_in, sock_out, children, pending, req_seq, down_q,
                   stdio, fwdlog, answers, via, shim, upstream, bridge, ovars>>

\* send_many, read loop: the client takes one response off the socket
ConnRecv ==
    /\ down_q # <<>>
    /\ down_q' = Tail(down_q)
    /\ UNCHANGED <<bvars, stage, sock_in, sock_out, children, pending, req_seq, up_q,
                   stdio, fwdlog, answers, via, sent, shim, upstream, bridge, ovars>>

ConnNext ==
    \/ \E r \in ConnReqs, id \in ConnIds : ConnSend(r, id)
    \/ BrokerServe
    \/ ConnRecv

ConnSpec == MuxSpecInit /\ [][ConnNext]_vars

-----------------------------------------------------------------------------
(* ChildMux::write_chunk, one call, against any replies: the frames it      *)
(* sends and the replies it reads are the only contact with the rest.       *)

Datas == UNION {[1..n -> {ByteA, ByteB}] : n \in 0..MaxData}
ChunkHandles == 0..(ReservedMax + 1)

\* map_code
map_code(c) ==
    CASE c = "E_ARG" -> "EArg"
      [] c = "E_NOENT" -> "ENoEnt"
      [] c = "E_PERM" -> "EPerm"
      [] c = "E_IO" -> "EIO"
      [] c = "E_CLOSED" -> "EClosed"
      [] c = "E_UNSUPPORTED" -> "EUnsupported"
      [] OTHER -> "Other"

\* mutant of map_exit: a missing file is reported like a refused one
map_exit_NoEntAsPerm(code) ==
    CASE code \in {"ENoEnt", "EPerm", "EArg"} -> 2
      [] code = "EIO" -> 3
      [] code = "EClosed" -> 4
      [] code = "EUnsupported" -> 5
      [] OTHER -> 6

\* map_exit
map_exit(code) ==
    CASE code = "ENoEnt" -> 1
      [] code \in {"EPerm", "EArg"} -> 2
      [] code = "EIO" -> 3
      [] code = "EClosed" -> 4
      [] code = "EUnsupported" -> 5
      [] OTHER -> 6

\* ChildMux::send, the code of a failed response; the built-ins return
\* map_exit of ChildMux's map_code of it
send_code(rsp) == IF "error" \in DOMAIN rsp /\ "code" \in DOMAIN rsp.error
                  THEN rsp.error.code ELSE "?"
abort_exit(rsp) == map_exit(map_code(send_code(rsp)))

\* run_builtin_cat, the read loop on handle h: up to k more chunks
RECURSIVE cat_loop(_, _, _)
cat_loop(st, h, k) ==
    LET out == handle(st, Request(ToString(k), "read", [h |-> h, max |-> MAX_READ]))
    IN  IF ~out.resp.ok THEN abort_exit(out.resp)
        ELSE IF out.resp.result.eof \/ k = 0 THEN 0
        ELSE cat_loop(out.st, h, k - 1)

\* run_builtin_cat with one input file and no redirection: its exit code
run_builtin_cat(st, path) ==
    LET out == handle(st, Request("1", "open", [path |-> path, mode |-> "r"]))
    IN  IF ~out.resp.ok THEN abort_exit(out.resp)
        ELSE cat_loop(out.st, out.resp.result.handle, MaxFileLen + 1)

\* what send() may read back: ok with any written count or none, or an error
Replies ==
    {[ok |-> TRUE, result |-> [written |-> w]] : w \in 0..(MaxData + 1)}
    \cup {[ok |-> TRUE, result |-> NoParams]}
    \cup {[ok |-> FALSE, error |-> [code |-> c]] :
            c \in {"E_PERM", "E_CLOSED", "E_IO", "E_ARG", "E_QUOTA"}}

ChunkOk(n) == [ok |-> TRUE, n |-> n]
ChunkErr(code) == [ok |-> FALSE, code |-> code]

\* the call starts: write_chunk(h, data)
ChunkInit(h, data) ==
    [pc |-> "call", h |-> h, data |-> data, total_written |-> 0,
     frames |-> <<>>, replies |-> <<>>]

Remaining(sh) == SubSeq(sh.data, sh.total_written + 1, Len(sh.data))

\* mutant of write_chunk_reply: a reply of written 0 is progress like any other
write_chunk_reply_ZeroOk(sh, rep) ==
    LET sh1 == [sh EXCEPT !.replies = Append(@, rep)] IN
    IF ~rep.ok
    THEN [sh1 EXCEPT !.pc = "done"] @@ [result |-> ChunkErr(map_code(rep.error.code))]
    ELSE LET w == IF "written" \in DOMAIN rep.result THEN rep.result.written ELSE 0
             sh2 == [sh1 EXCEPT !.total_written = @ + w]
         IN  IF w > Len(Remaining(sh))
             THEN [sh2 EXCEPT !.pc = "done"] @@ [result |-> ChunkOk(sh2.total_written)]
             ELSE [sh2 EXCEPT !.pc = "loop"]

\* write_chunk, the loop body after send() returned rep
write_chunk_reply(sh, rep) ==
    LET sh1 == [sh EXCEPT !.replies = Append(@, rep)] IN
    IF ~rep.ok
    THEN [sh1 EXCEPT !.pc = "done"] @@ [result |-> ChunkErr(map_code(rep.error.code))]
    ELSE LET w == IF "written" \in DOMAIN rep.result THEN rep.result.written ELSE 0
             sh2 == [sh1 EXCEPT !.total_written = @ + w]
         IN  IF w = 0
             THEN [sh1 EXCEPT !.pc = "done"] @@ [result |-> ChunkErr("EIO")]
             ELSE IF w > Len(Remaining(sh))
             THEN [sh2 EXCEPT !.pc = "done"] @@ [result |-> ChunkOk(sh2.total_written)]
             ELSE [sh2 EXCEPT !.pc = "loop"]

ChunkRest == <<bvars, stage, sock_in, sock_out, children, pending, req_seq, up_q, down_q,
               fwdlog, answers, via, sent, upstream, bridge, ovars>>

\* write_chunk, entry: handles 1 and 2 are written locally, handle 0 is refused
WriteChunkCall ==
    /\ shim.pc = "call"
    /\ IF shim.h \in {1, 2}
       THEN IF (IF shim.h = 1 THEN "stdout" ELSE "stderr") \in stdio.broken /\ shim.data # <<>>
            THEN /\ shim' = [shim EXCEPT !.pc = "done"] @@ [result |-> ChunkErr("EIO")]
                 /\ UNCHANGED stdio
            ELSE /\ shim' = [shim EXCEPT !.pc = "done"] @@ [result |-> ChunkOk(Len(shim.data))]
                 /\ stdio' = IF shim.h = 1 THEN [stdio EXCEPT !.stdout = @ \o shim.data]
                             ELSE [stdio EXCEPT !.stderr = @ \o shim.data]
       ELSE IF shim.h = 0
       THEN /\ shim' = [shim EXCEPT !.pc = "done"] @@ [result |-> ChunkErr("EPerm")]
            /\ UNCHANGED stdio
       ELSE /\ shim' = [shim EXCEPT !.pc = "loop"]
            /\ UNCHANGED stdio
    /\ UNCHANGED ChunkRest

\* write_chunk, loop head and send(): the remainder goes out, or the loop ends
WriteChunkSend ==
    /\ shim.pc = "loop"
    /\ IF shim.total_written < Len(shim.data)
       THEN shim' = [shim EXCEPT
                       !.pc = "recv",
                       !.frames = Append(@, Request(next_id(Len(shim.frames)), "write",
                                     [h |-> shim.h, data |-> B64Encode(Remaining(shim))]))]
       ELSE shim' = [shim EXCEPT !.pc = "done"] @@ [result |-> ChunkOk(shim.total_written)]
    /\ UNCHANGED <<ChunkRest, stdio>>

\* write_chunk, send() returns with the reply it read
WriteChunkRecv(rep) ==
    /\ shim.pc = "recv"
    /\ shim' = write_chunk_reply(shim, rep)
    /\ UNCHANGED <<ChunkRest, stdio>>

ChunkSpecInit ==
    /\ BrokerInit
    /\ MuxInit
    /\ script = FreeClient
    /\ sent = <<>>
    /\ bridge = NoBridge
    /\ IdleOthers
    /\ shim \in {ChunkInit(h, data) : h \in ChunkHandles, data \in Datas}

ChunkNext ==
    \/ WriteChunkCall
    \/ WriteChunkSend
    \/ \E rep \in Replies : WriteChunkRecv(rep)

ChunkSpec == ChunkSpecInit /\ [][ChunkNext]_vars

-----------------------------------------------------------------------------
(* ChildMux's calls side by side with run_mux (llmsh-rs/src/mux.rs): what a  *)
(* call does in the stage, and what run_mux does with the frame of the same  *)
(* request.                                                                  *)

\* the calls a built-in makes
Calls ==
    [op : {"read"}, h : 0..(ReservedMax + 1), max : Maxes]
    \cup [op : {"write"}, h : 0..(ReservedMax + 1), data : {<<>>, <<ByteA>>, <<ByteA, ByteB>>}]
    \cup [op : {"close"}, h : 0..(ReservedMax + 1)]
    \cup [op : {"open"}, path : {"v"}, mode : {"rw"}]

\* the frame send() writes for a call
FrameOf(c) ==
    Request("1", c.op,
            CASE c.op = "read" -> [h |-> c.h, max |-> c.max]
              [] c.op = "write" -> [h |-> c.h, data |-> B64Encode(c.data)]
              [] c.op = "close" -> [h |-> c.h]
              [] OTHER -> [path |-> c.path, mode |-> c.mode])

CallOk(result) == [ok |-> TRUE, result |-> result]
CallErr(code) == [ok |-> FALSE, code |-> code]
Local(io, ret) == [sent |-> FALSE, ret |-> ret, io |-> io]

\* mutant of child_call: close sends a frame for the reserved handles too
child_call_CloseSent(io, c) ==
    IF c.op = "read" /\ c.h = 0
    THEN IF "stdin" \in io.broken THEN Local(io, CallErr("EIO"))
         ELSE LET n == Min(Min(c.max, MAX_READ), Len(io.stdin))
              IN  Local([io EXCEPT !.stdin = SubSeq(@, n + 1, Len(@))],
                        CallOk([data |-> SubSeq(io.stdin, 1, n), eof |-> n = 0]))
    ELSE IF c.op = "write" /\ c.h \in {1, 2}
    THEN LET to == IF c.h = 1 THEN "stdout" ELSE "stderr"
         IN  IF to \in io.broken /\ c.data # <<>> THEN Local(io, CallErr("EIO"))
             ELSE Local(IF to = "stdout" THEN [io EXCEPT !.stdout = @ \o c.data]
                        ELSE [io EXCEPT !.stderr = @ \o c.data],
                        CallOk([written |-> Len(c.data)]))
    ELSE IF c.op = "write" /\ c.h = 0 THEN Local(io, CallErr("EPerm"))
    ELSE [sent |-> TRUE, frame |-> FrameOf(c), io |-> io]

\* ChildMux::read_chunk, write_chunk, close, open, up to the first send():
\* the call ends in the stage, on the stage's standard streams io, or it
\* sends a frame
child_call(io, c) ==
    IF c.op = "read" /\ c.h = 0
    THEN IF "stdin" \in io.broken THEN Local(io, CallErr("EIO"))
         ELSE LET n == Min(Min(c.max, MAX_READ), Len(io.stdin))
              IN  Local([io EXCEPT !.stdin = SubSeq(@, n + 1, Len(@))],
                        CallOk([data |-> SubSeq(io.stdin, 1, n), eof |-> n = 0]))
    ELSE IF c.op = "write" /\ c.h \in {1, 2}
    THEN LET to == IF c.h = 1 THEN "stdout" ELSE "stderr"
         IN  IF to \in io.broken /\ c.data # <<>> THEN Local(io, CallErr("EIO"))
             ELSE Local(IF to = "stdout" THEN [io EXCEPT !.stdout = @ \o c.data]
                        ELSE [io EXCEPT !.stderr = @ \o c.data],
                        CallOk([written |-> Len(c.data)]))
    ELSE IF c.op = "write" /\ c.h = 0 THEN Local(io, CallErr("EPerm"))
    ELSE IF c.op = "close" /\ c.h <= ReservedMax THEN Local(io, CallOk([closed |-> TRUE]))
    ELSE [sent |-> TRUE, frame |-> FrameOf(c), io |-> io]

\* what run_mux does with the frame of the call, on the same standard
\* streams: it forwards the frame, or answers it; the answer as a call's
\* outcome (data decoded, error code mapped)
mux_call(c) ==
    LET m == ChildFrame(Mux, 1, FrameOf(c))
    IN  IF Len(m.up_q) > Len(up_q) THEN [sent |-> TRUE, frame |-> FrameOf(c), io |-> m.stdio]
        ELSE LET rsp == m.sock_out[1][Len(m.sock_out[1])]
             IN  Local(m.stdio,
                       IF ~rsp.ok THEN CallErr(map_code(rsp.error.code))
                       ELSE IF c.op = "read"
                       THEN CallOk([data |-> B64Decode(rsp.result.data).bytes,
                                    eof |-> rsp.result.eof])
                       ELSE IF c.op = "write" THEN CallOk([written |-> rsp.result.written])
                       ELSE CallOk([closed |-> rsp.result.closed]))

ShimRest == <<bvars, stage, sock_in, sock_out, children, pending, req_seq, up_q, down_q,
              fwdlog, answers, via, sent, upstream, bridge, ovars>>

\* a built-in makes a call that ends in the stage
ChildCall(c) ==
    /\ shim.pc = "calls"
    /\ shim.n < MaxData
    /\ ~child_call(stdio, c).sent
    /\ stdio' = child_call(stdio, c).io
    /\ shim' = [shim EXCEPT !.n = @ + 1, !.last = c]
    /\ UNCHANGED ShimRest

\* a standard stream starts to fail: its other end is gone
StdioBreak(s) ==
    /\ shim.pc = "calls"
    /\ s \notin stdio.broken
    /\ stdio' = [stdio EXCEPT !.broken = @ \cup {s}]
    /\ UNCHANGED <<shim, ShimRest>>

ShimSpecInit ==
    /\ BrokerInit
    /\ MuxInit
    /\ script = FreeClient
    /\ sent = <<>>
    /\ bridge = NoBridge
    /\ IdleOthers
    /\ shim = [pc |-> "calls", n |-> 0, last |-> [op |-> "none"]]

ShimNext ==
    \/ \E c \in Calls : ChildCall(c)
    \/ \E s \in {"stdin", "stdout", "stderr"} : StdioBreak(s)

ShimSpec == ShimSpecInit /\ [][ShimNext]_vars

-----------------------------------------------------------------------------
(* The broker in bridge mode (vfsd/src/main.rs, run_bridge): two threads,   *)
(* each a copy loop from one socket to the other.  sock[s] is the socket    *)
(* whose peer is s; thr[d] is the thread of direction d.                    *)

Sides == {"client", "upstream"}
Dirs == {"cu", "uc"}
From(d) == IF d = "cu" THEN "client" ELSE "upstream"
To(d) == IF d = "cu" THEN "upstream" ELSE "client"

\* run_bridge has spawned both threads; nothing has been written yet
BridgeStart ==
    [pc |-> "run",
     sock |-> [s \in Sides |->
                 [wrote |-> <<>>,       \* history: what the peer wrote
                  unread |-> <<>>,      \* written by the peer, not yet read by the bridge
                  weof |-> FALSE,       \* the peer has shut down or closed its write side
                  closed |-> FALSE,     \* the peer has closed its socket
                  got |-> <<>>,         \* what the bridge wrote to the peer
                  shut |-> FALSE]],     \* the bridge has shut down its write side
     thr |-> [d \in Dirs |-> [pc |-> "read", buf |-> <<>>, end |-> "none"]]]

BridgeRest == <<bvars, muxvars, sent, shim, ovars>>

\* the k-th byte a peer writes: the two peers write alternating bytes, out
\* of step with each other, so that a lost, doubled, swapped or crossed byte shows
PeerByte(s, k) == IF (k % 2 = 1) = (s = "client") THEN ByteA ELSE ByteB

\* a peer writes one more byte to its socket
PeerWrite(s) ==
    LET b == PeerByte(s, Len(bridge.sock[s].wrote) + 1) IN
    /\ bridge.pc # "origin"
    /\ ~bridge.sock[s].weof
    /\ Len(bridge.sock[s].wrote) < MaxData
    /\ bridge' = [bridge EXCEPT !.sock[s].wrote = Append(@, b),
                                !.sock[s].unread = Append(@, b)]
    /\ UNCHANGED BridgeRest

\* a peer shuts down its write side, or closes its socket
PeerEnd(s, close) ==
    /\ bridge.pc # "origin"
    /\ ~bridge.sock[s].closed
    /\ close \/ ~bridge.sock[s].weof
    /\ bridge' = [bridge EXCEPT !.sock[s].weof = TRUE,
                                !.sock[s].closed = @ \/ close]
    /\ UNCHANGED BridgeRest

\* mutant of BridgeRead: the loop looks for the end of the stream before it
\* looks for data
BridgeRead_EofFirst(d, reset) ==
    LET s == From(d) IN
    /\ bridge.pc = "run"
    /\ bridge.thr[d].pc = "read"
    /\ ~reset
    /\ IF bridge.sock[s].weof
       THEN bridge' = [bridge EXCEPT !.sock[To(d)].shut = TRUE,
                                     !.thr[d].pc = "done",
                                     !.thr[d].end = "eof"]
       ELSE /\ bridge.sock[s].unread # <<>>
            /\ LET n == Min(Len(bridge.sock[s].unread), BridgeBuf)
               IN  bridge' = [bridge EXCEPT
                                !.thr[d].buf = SubSeq(bridge.sock[s].unread, 1, n),
                                !.thr[d].pc = "write",
                                !.sock[s].unread = SubSeq(@, n + 1, Len(@))]
    /\ UNCHANGED BridgeRest

\* a copy loop's read returns: with bytes; with 0 at the end of the stream,
\* and the other socket's write side is shut down; or, on a socket the peer
\* closed, with a reset, and the loop just ends
BridgeRead(d, reset) ==
    LET s == From(d) IN
    /\ bridge.pc = "run"
    /\ bridge.thr[d].pc = "read"
    /\ IF bridge.sock[s].unread # <<>>
       THEN /\ ~reset
            /\ LET n == Min(Len(bridge.sock[s].unread), BridgeBuf)
               IN  bridge' = [bridge EXCEPT
                                !.thr[d].buf = SubSeq(bridge.sock[s].unread, 1, n),
                                !.thr[d].pc = "write",
                                !.sock[s].unread = SubSeq(@, n + 1, Len(@))]
       ELSE IF reset
       THEN /\ bridge.sock[s].closed
            /\ bridge' = [bridge EXCEPT !.thr[d].pc = "done",
                                        !.thr[d].end = "read error"]
       ELSE /\ bridge.sock[s].weof
            /\ bridge' = [bridge EXCEPT !.sock[To(d)].shut = TRUE,
                                        !.thr[d].pc = "done",
                                        !.thr[d].end = "eof"]
    /\ UNCHANGED BridgeRest

\* a copy loop's write_all: the chunk goes out whole, or the peer has closed
\* its socket, the write fails, and the loop ends after a shutdown
BridgeWrite(d) ==
    LET t == To(d) IN
    /\ bridge.pc = "run"
    /\ bridge.thr[d].pc = "write"
    /\ IF bridge.sock[t].closed
       THEN bridge' = [bridge EXCEPT !.sock[t].shut = TRUE,
                                     !.thr[d].buf = <<>>,
                                     !.thr[d].pc = "done",
                                     !.thr[d].end = "write error"]
       ELSE bridge' = [bridge EXCEPT !.sock[t].got = @ \o bridge.thr[d].buf,
                                     !.thr[d].buf = <<>>,
                                     !.thr[d].pc = "read"]
    /\ UNCHANGED BridgeRest

\* run_bridge, both joins have returned
BridgeJoin ==
    /\ bridge.pc = "run"
    /\ \A d \in Dirs : bridge.thr[d].pc = "done"
    /\ bridge' = [bridge EXCEPT !.pc = "returned"]
    /\ UNCHANGED BridgeRest

BridgeSpecInit ==
    /\ BrokerInit
    /\ MuxInit
    /\ script = FreeClient
    /\ sent = <<>>
    /\ shim = NoCall
    /\ bridge = BridgeStart
    /\ IdleOthers

BridgeNext ==
    \/ \E s \in Sides : PeerWrite(s)
    \/ \E s \in Sides, close \in BOOLEAN : PeerEnd(s, close)
    \/ \E d \in Dirs, reset \in BOOLEAN : BridgeRead(d, reset)
    \/ \E d \in Dirs : BridgeWrite(d)
    \/ BridgeJoin

\* the main thread is scheduled once both joins can return
BridgeSpec == BridgeSpecInit /\ [][BridgeNext]_vars /\ WF_vars(BridgeJoin)

-----------------------------------------------------------------------------
(* The origin broker on a byte stream (vfsd/src/main.rs, read_frame and the  *)
(* loop of main).  A client writes frames byte by byte, each a 4-byte        *)
(* big-endian length and a body, and may stop anywhere: it shuts down its    *)
(* writing side, or closes the socket.                                       *)

PingBody == <<112, 105>>        \* stands for {"id":"1","op":"ping"}
OpenBody == <<111, 112, 110>>   \* stands for {"id":"1","op":"open","params":{"path":"v","mode":"rw"}}
JunkBody == <<123>>             \* no JSON document
Bodies == {PingBody, OpenBody, JunkBody, <<>>}

\* u32::to_be_bytes, for the lengths that occur
to_be_bytes(n) == <<0, 0, n \div 256, n % 256>>
\* u32::from_be_bytes
from_be_bytes(b) == ((b[1] * 256 + b[2]) * 256 + b[3]) * 256 + b[4]

FrameBytes(body) == to_be_bytes(Len(body)) \o body

\* serde_json::from_slice::<Request>
ParseRequest(body) ==
    IF body = PingBody THEN [ok |-> TRUE, req |-> Request("1", "ping", NoParams)]
    ELSE IF body = OpenBody
    THEN [ok |-> TRUE, req |-> Request("1", "open", [path |-> "v", mode |-> "rw"])]
    ELSE [ok |-> FALSE]

\* mutant of read_frame: the end of the stream inside the header counts as a clean end
read_frame_LenientHeader(wire, eof) ==
    IF Len(wire) < 4
    THEN IF ~eof THEN [kind |-> "wait"] ELSE [kind |-> "none"]
    ELSE LET len == from_be_bytes(SubSeq(wire, 1, 4))
         IN  IF Len(wire) < 4 + len
             THEN IF ~eof THEN [kind |-> "wait"] ELSE [kind |-> "error"]
             ELSE [kind |-> "frame", buf |-> SubSeq(wire, 5, 4 + len),
                   rest |-> SubSeq(wire, 5 + len, Len(wire))]

\* fn read_frame: the bytes not yet read are wire, and eof says that the
\* writer is gone; the call sleeps in read while a frame is incomplete and
\* the writer is there
read_frame(wire, eof) ==
    IF Len(wire) < 4
    THEN IF ~eof THEN [kind |-> "wait"]
         ELSE IF Len(wire) = 0 THEN [kind |-> "none"] ELSE [kind |-> "error"]
    ELSE LET len == from_be_bytes(SubSeq(wire, 1, 4))
         IN  IF Len(wire) < 4 + len
             THEN IF ~eof THEN [kind |-> "wait"] ELSE [kind |-> "error"]
             ELSE [kind |-> "frame", buf |-> SubSeq(wire, 5, 4 + len),
                   rest |-> SubSeq(wire, 5 + len, Len(wire))]

\* main in origin mode, before the first frame; the client has written nothing
OriginStart ==
    [pc |-> "serve",
     wire |-> <<>>,         \* bytes written by the client, not yet read
     peer |-> "open",       \* the client's end: open, shut (no more writes), closed
     cur |-> <<>>,          \* the rest of the frame the client is writing
     whole |-> 0,           \* history: frames the client wrote to the end
     part |-> 0,            \* history: bytes the client wrote of a frame it has not ended
     out |-> <<>>,          \* the responses written
     exit |-> "none",       \* how main returned: Ok(()) or Err
     why |-> "none",        \* what ended the loop
     warned |-> FALSE]      \* the warning about unclosed handles was printed

OriginRest == <<muxvars, sent, shim, bridge, wake, spawner>>

\* the client begins a frame
ClientBegin(body) ==
    /\ origin.pc = "serve"
    /\ origin.peer = "open"
    /\ origin.cur = <<>>
    /\ origin.whole < MaxFrames
    /\ origin' = [origin EXCEPT !.cur = Tail(FrameBytes(body)),
                                !.wire = Append(@, Head(FrameBytes(body))),
                                !.part = 1]
    /\ UNCHANGED <<bvars, OriginRest>>

\* the client writes the next byte of its frame
ClientByte ==
    /\ origin.pc = "serve"
    /\ origin.peer = "open"
    /\ origin.cur # <<>>
    /\ origin' = [origin EXCEPT !.cur = Tail(@),
                                !.wire = Append(@, Head(origin.cur)),
                                !.part = IF Len(origin.cur) = 1 THEN 0 ELSE @ + 1,
                                !.whole = IF Len(origin.cur) = 1 THEN @ + 1 ELSE @]
    /\ UNCHANGED <<bvars, OriginRest>>

\* the client stops: shutdown(SHUT_WR), or close
ClientEnd(how) ==
    /\ origin.pc = "serve"
    /\ origin.peer = "open"
    /\ origin' = [origin EXCEPT !.peer = how]
    /\ UNCHANGED <<bvars, OriginRest>>

\* one turn of the loop of main: read_frame, then dispatch and write_frame,
\* or the end of the loop
OriginTurn ==
    /\ origin.pc = "serve"
    /\ LET rf == read_frame(origin.wire, origin.peer # "open")
       IN  /\ rf.kind # "wait"
           /\ IF rf.kind = "error"
              THEN /\ origin' = [origin EXCEPT !.pc = "exited", !.exit = "Err",
                                               !.why = "proto"]
                   /\ UNCHANGED bvars
              ELSE IF rf.kind = "none"
              THEN /\ origin' = [origin EXCEPT !.pc = "exited", !.exit = "Ok",
                                               !.why = "clean EOF",
                                               !.warned = (DOMAIN handles # {})]
                   /\ UNCHANGED bvars
              ELSE LET p == ParseRequest(rf.buf)
                       rsp == IF p.ok THEN handle(State, p.req).resp
                              ELSE err("?", "E_ARG", "invalid json")
                   IN  /\ IF p.ok THEN Dispatch(p.req) ELSE UNCHANGED bvars
                       /\ IF origin.peer = "closed"
                          THEN origin' = [origin EXCEPT !.wire = rf.rest, !.pc = "exited",
                                                        !.exit = "Err", !.why = "write"]
                          ELSE origin' = [origin EXCEPT !.wire = rf.rest,
                                                        !.out = Append(@, rsp)]
    /\ UNCHANGED OriginRest

OriginSpecInit ==
    /\ BrokerInit
    /\ MuxInit
    /\ script = FreeClient
    /\ sent = <<>>
    /\ shim = NoCall
    /\ bridge = NoBridge
    /\ origin = OriginStart
    /\ wake = NoWake
    /\ spawner = NoSpawner

OriginNext ==
    \/ \E body \in Bodies : ClientBegin(body)
    \/ ClientByte
    \/ \E how \in {"shut", "closed"} : ClientEnd(how)
    \/ OriginTurn

OriginSpec == OriginSpecInit /\ [][OriginNext]_vars

-----------------------------------------------------------------------------
(* llmsh running a script (llmsh-rs/src/main.rs, exec_script_text and        *)
(* spawn_pipeline): per line it forks the stages, runs run_mux, which spawns *)
(* a broker, and then calls wait once per stage.  wait takes any child that  *)
(* has terminated.                                                           *)

ExitCodes == {0, 3}

\* exec_script_text, before the first line
SpawnerStart ==
    [pc |-> "line",         \* line: between pipelines; mux: in run_mux; wait: in the wait loop
     line |-> 1,            \* the line of the script that is next, or running
     procs |-> <<>>,        \* the children forked so far: kind, line, state, exit code
     left |-> 0,            \* wait calls still to make for this pipeline
     status_code |-> 0,     \* spawn_pipeline's local
     last |-> <<>>]         \* history: what spawn_pipeline returned, per line

SpawnerRest == <<bvars, muxvars, sent, shim, bridge, origin, wake>>

StageProc(l) == [kind |-> "stage", line |-> l, st |-> "running", code |-> 0, by |-> 0]
BrokerProc(l) == [kind |-> "broker", line |-> l, st |-> "running", code |-> 0, by |-> 0]
ProcsOf(l, kind) ==
    {p \in 1..Len(spawner.procs) : spawner.procs[p].line = l /\ spawner.procs[p].kind = kind}

\* spawn_pipeline up to the loop of run_mux: fork per unit, then spawn_upstream
SpawnPipeline(units) ==
    /\ spawner.pc = "line"
    /\ spawner.line <= MaxLines
    /\ spawner' = [spawner EXCEPT
                     !.pc = "mux",
                     !.procs = @ \o [i \in 1..units |-> StageProc(spawner.line)]
                                 \o <<BrokerProc(spawner.line)>>,
                     !.left = units,
                     !.status_code = 0]
    /\ UNCHANGED SpawnerRest

\* a stage runs to its std::process::exit(code); its socket end closes with it
StageDone(p, code) ==
    /\ p \in 1..Len(spawner.procs)
    /\ spawner.procs[p].kind = "stage"
    /\ spawner.procs[p].st = "running"
    /\ spawner' = [spawner EXCEPT !.procs[p].st = "zombie", !.procs[p].code = code]
    /\ UNCHANGED SpawnerRest

\* run_mux returns: no stage socket is alive; it closes the upstream socket
MuxDone ==
    /\ spawner.pc = "mux"
    /\ \A p \in ProcsOf(spawner.line, "stage") : spawner.procs[p].st # "running"
    /\ spawner' = [spawner EXCEPT !.pc = "wait"]
    /\ UNCHANGED SpawnerRest

\* the broker reads the end of its stream and exits; nothing called wait on it
BrokerDone(p) ==
    /\ p \in 1..Len(spawner.procs)
    /\ spawner.procs[p].kind = "broker"
    /\ spawner.procs[p].st = "running"
    /\ spawner.procs[p].line < spawner.line \/ spawner.pc = "wait"
    /\ spawner' = [spawner EXCEPT !.procs[p].st = "zombie", !.procs[p].code = 0]
    /\ UNCHANGED SpawnerRest

\* one libc::wait(&mut status) of the loop after run_mux: it returns a
\* terminated child, whichever; after the last one spawn_pipeline returns
Wait(p) ==
    /\ spawner.pc = "wait"
    /\ p \in 1..Len(spawner.procs)
    /\ spawner.procs[p].st = "zombie"
    /\ LET code == spawner.procs[p].code
       IN  spawner' = [spawner EXCEPT
                         !.procs[p].st = "reaped",
                         !.procs[p].by = spawner.line,
                         !.status_code = code,
                         !.left = @ - 1,
                         !.pc = IF spawner.left = 1 THEN "line" ELSE "wait",
                         !.line = IF spawner.left = 1 THEN @ + 1 ELSE @,
                         !.last = IF spawner.left = 1 THEN Append(@, code) ELSE @]
    /\ UNCHANGED SpawnerRest

SpawnerSpecInit ==
    /\ BrokerInit
    /\ MuxInit
    /\ script = FreeClient
    /\ sent = <<>>
    /\ shim = NoCall
    /\ bridge = NoBridge
    /\ origin = NoOrigin
    /\ wake = NoWake
    /\ spawner = SpawnerStart

SpawnerNext ==
    \/ \E units \in 1..MaxUnits : SpawnPipeline(units)
    \/ \E p \in 1..(MaxLines * (MaxUnits + 1)) : \E code \in ExitCodes : StageDone(p, code)
    \/ MuxDone
    \/ \E p \in 1..(MaxLines * (MaxUnits + 1)) : BrokerDone(p)
    \/ \E p \in 1..(MaxLines * (MaxUnits + 1)) : Wait(p)

SpawnerSpec == SpawnerSpecInit /\ [][SpawnerNext]_vars

-----------------------------------------------------------------------------
(* run_mux read by read (llmsh-rs/src/mux.rs).  Frames count by their size   *)
(* in bytes only.  Each stage works through ChildMux: it writes a request    *)
(* and reads until the response is there.  The upstream socket is the        *)
(* blocking socket pair of spawn_upstream; standard input is a pipe or a     *)
(* terminal whose writer may write later, or never.                          *)

\* sizes of the broker's response frames, header included: below the read
\* buffer of run_mux, exactly the buffer, above it
FrameSizes == {1, MuxBuf, MuxBuf + 1}

\* a request as a stage writes it: read{h:0} is "local", any other is "fwd"
\* with the size of the response the broker will give
NoReq == [kind |-> "none", size |-> 0]
LocalReq == [kind |-> "local", size |-> 0]
FwdReqs == [kind : {"fwd"}, size : FrameSizes]

\* run_mux suspended in poll, nothing sent yet
WakeStart ==
    [pc |-> "poll",                          \* poll, drain (the upstream read loop), stdin (in the local read)
     who |-> 0,                              \* the stage whose read{h:0} is being served
     req |-> [i \in Stages |-> NoReq],       \* per stage socket: the request not yet read by run_mux
     waiting |-> [i \in Stages |-> FALSE],   \* per stage: in ChildMux::send, reading the response
     asked |-> [i \in Stages |-> 0],         \* per stage: requests sent
     got |-> [i \in Stages |-> 0],           \* per stage: responses received
     nsent |-> 0,                            \* requests sent by all stages
     up_req |-> <<>>,                        \* upstream socket: requests the broker has not read
     up_avail |-> 0,                         \* upstream socket: response bytes run_mux has not read
     frames |-> <<>>,                        \* responses written by the broker and not yet parsed: stage, size
     upstream_buf |-> 0,                     \* bytes in upstream_buf
     stdin |-> [avail |-> 0, eof |-> FALSE]] \* standard input: bytes to read, writer gone

WakeRest == <<bvars, muxvars, sent, shim, bridge, origin, spawner>>

\* ChildMux::send, first half: the stage writes a request
WStageSend(i, rq) ==
    /\ ~wake.waiting[i]
    /\ wake.nsent < MaxFrames
    /\ wake' = [wake EXCEPT !.req[i] = rq, !.waiting[i] = TRUE, !.asked[i] = @ + 1,
                            !.nsent = @ + 1]
    /\ UNCHANGED WakeRest

\* the writer of standard input writes a byte, or goes away
StdinFeed(end) ==
    /\ ~wake.stdin.eof
    /\ IF end THEN wake' = [wake EXCEPT !.stdin.eof = TRUE]
       ELSE /\ wake.stdin.avail = 0
            /\ wake' = [wake EXCEPT !.stdin.avail = 1]
    /\ UNCHANGED WakeRest

\* run_mux woken by a stage socket: a read{h:0} enters stdin().read, any
\* other request goes upstream
WChildEvent(i) ==
    /\ wake.pc = "poll"
    /\ wake.req[i] # NoReq
    /\ IF wake.req[i].kind = "local"
       THEN wake' = [wake EXCEPT !.pc = "stdin", !.who = i, !.req[i] = NoReq]
       ELSE wake' = [wake EXCEPT !.up_req = Append(@, [stage |-> i, size |-> wake.req[i].size]),
                                 !.req[i] = NoReq]
    /\ UNCHANGED WakeRest

\* stdin().read returns, with bytes or with 0 at the end of input; the
\* response goes to the stage
WStdinRead ==
    /\ wake.pc = "stdin"
    /\ wake.stdin.avail > 0 \/ wake.stdin.eof
    /\ wake' = [wake EXCEPT !.pc = "poll", !.who = 0,
                            !.stdin.avail = 0,
                            !.waiting[wake.who] = FALSE,
                            !.got[wake.who] = @ + 1]
    /\ UNCHANGED WakeRest

\* the broker serves one request and writes the response
WBroker ==
    /\ wake.up_req # <<>>
    /\ wake' = [wake EXCEPT !.up_req = Tail(@),
                            !.up_avail = @ + Head(wake.up_req).size,
                            !.frames = Append(@, Head(wake.up_req))]
    /\ UNCHANGED WakeRest

\* run_mux woken by POLLIN on the upstream socket: it enters the read loop
WUpstreamEvent ==
    /\ wake.pc = "poll"
    /\ wake.up_avail > 0
    /\ wake' = [wake EXCEPT !.pc = "drain"]
    /\ UNCHANGED WakeRest

\* the frames that are whole in upstream_buf go to their stages
RECURSIVE WParse(_)
WParse(w) ==
    IF w.frames # <<>> /\ Head(w.frames).size <= w.upstream_buf
    THEN LET f == Head(w.frames)
         IN  WParse([w EXCEPT !.frames = Tail(@),
                              !.upstream_buf = @ - f.size,
                              !.waiting[f.stage] = FALSE,
                              !.got[f.stage] = @ + 1])
    ELSE w

\* mutant of WDrainRead: the loop ends after a read that filled the buffer too
WDrainRead_OneRead ==
    /\ wake.pc = "drain"
    /\ wake.up_avail > 0
    /\ LET n == Min(wake.up_avail, MuxBuf)
           w == [wake EXCEPT !.up_avail = @ - n, !.upstream_buf = @ + n]
       IN  wake' = WParse([w EXCEPT !.pc = "poll"])
    /\ UNCHANGED WakeRest

\* one nread(up_read_fd, tmp) of the read loop, tmp of MuxBuf bytes: it
\* returns when there are bytes; a read that filled tmp is followed by
\* another, a shorter one ends the loop and the frames are parsed
WDrainRead ==
    /\ wake.pc = "drain"
    /\ wake.up_avail > 0
    /\ LET n == Min(wake.up_avail, MuxBuf)
           w == [wake EXCEPT !.up_avail = @ - n, !.upstream_buf = @ + n]
       IN  wake' = IF n < MuxBuf THEN WParse([w EXCEPT !.pc = "poll"]) ELSE w
    /\ UNCHANGED WakeRest

\* run_mux is inside a read call that has nothing to return
InBlockedRead ==
    \/ wake.pc = "drain" /\ wake.up_avail = 0
    \/ wake.pc = "stdin" /\ wake.stdin.avail = 0 /\ ~wake.stdin.eof

WakeSpecInit ==
    /\ BrokerInit
    /\ MuxInit
    /\ script = FreeClient
    /\ sent = <<>>
    /\ shim = NoCall
    /\ bridge = NoBridge
    /\ origin = NoOrigin
    /\ spawner = NoSpawner
    /\ wake = WakeStart

WakeNext ==
    \/ \E i \in Stages : \E rq \in FwdReqs \cup {LocalReq} : WStageSend(i, rq)
    \/ \E end \in BOOLEAN : StdinFeed(end)
    \/ \E i \in Stages : WChildEvent(i)
    \/ WStdinRead
    \/ WBroker
    \/ WUpstreamEvent
    \/ WDrainRead

WakeSpec == WakeSpecInit /\ [][WakeNext]_vars

\* everything that can run does, and standard input comes to its end
WakeFairness ==
    /\ \A i \in Stages : WF_vars(WChildEvent(i))
    /\ WF_vars(WStdinRead)
    /\ WF_vars(WBroker)
    /\ WF_vars(WUpstreamEvent)
    /\ WF_vars(WDrainRead)
    /\ WF_vars(StdinFeed(TRUE))

WakeLiveSpec == WakeSpec /\ WakeFairness

-----------------------------------------------------------------------------
(* Two stages and the handles of one of them.  Stage 1 opens a virtual file  *)
(* again and again; stage 2 names handle 3 and has opened nothing.  The     *)
(* first two opens of a broker burn handles 1 and 2, so the stages get that  *)
(* many frames more.                                                         *)

OwnerFrames(i) ==
    IF i = 1
    THEN {Request("", "open", [path |-> "v", mode |-> "rw"])}
    ELSE {Request("", "read", [h |-> 3, max |-> 16]),
          Request("", "write", [h |-> 3, data |-> TextB]),
          Request("", "close", [h |-> 3])}

\* a stage writes one frame to its socket
OwnerSend(i, f) ==
    /\ ~stage[i].closed
    /\ Sent < MaxFrames + ReservedMax
    /\ stage' = [stage EXCEPT ![i].seq = @ + 1]
    /\ sock_in' = [sock_in EXCEPT ![i] = Append(@, [f EXCEPT !.id = next_id(stage[i].seq)])]
    /\ UNCHANGED <<bvars, sent, shim, upstream, bridge, ovars, sock_out, children, pending, req_seq, up_q, down_q,
                   stdio, fwdlog, answers, via>>

OwnerNext ==
    \/ \E i \in Stages : \E f \in OwnerFrames(i) : OwnerSend(i, f)
    \/ \E i \in Stages : MuxChildEvent(i)
    \/ MuxUpstreamEvent
    \/ BrokerServe

OwnerSpec == MuxSpecInit /\ [][OwnerNext]_vars

-----------------------------------------------------------------------------
(* Claims about the broker.  After(r) is the outcome of serving request r   *)
(* in the current state: the state the broker moves to and its response.    *)

After(r) == handle(State, r)
Code(rsp) == IF rsp.ok THEN "ok" ELSE rsp.error.code
ReadReq(h, max) == Request("1", "read", [h |-> h, max |-> max])
WriteReq(h, data) == Request("1", "write", [h |-> h, data |-> data])
CloseReq(h) == Request("1", "close", [h |-> h])
OpenReq(path, mode) == Request("1", "open", [path |-> path, mode |-> mode])

ReadOnlyListed(p) == path_allowed(allow_read, p) /\ ~path_allowed(allow_write, p)
IsVirtual(p) == ~path_allowed(allow_read, p) /\ ~path_allowed(allow_write, p)

\* C1: a path of the read allowlist that is not in the write allowlist is
\* never created, truncated or written: the file on disk stays as it was at
\* start-up, and no handle of the table can write to it.
C1_ReadOnlyPathNeverWritten ==
    \A p \in Paths :
        ReadOnlyListed(p) =>
            /\ fs[p] = 1
            /\ inodes[fs[p]] = InTxt
            /\ \A h \in DOMAIN handles :
                   ofds[handles[h].file].ino = fs[p] => ~handles[h].writable

\* C2: no successful open returns handle 0, 1 or 2 (so the first handle issued
\* is 3 at the least).
C2_NoReservedHandleIssued ==
    \A h \in DOMAIN issued : h > ReservedMax

\* C3: every handle an open returned, and no close has closed yet, is accepted
\* according to its mode: write on w, a, rw; read on r, rw; close by all.
C3_IssuedHandleAccepted ==
    \A h \in DOMAIN issued :
        /\ issued[h].mode \in {"w", "a", "rw"} => After(WriteReq(h, TextA)).resp.ok
        /\ issued[h].mode \in {"r", "rw"} => After(ReadReq(h, 16)).resp.ok
        /\ After(CloseReq(h)).resp.ok

NamesDeadHandle(r) ==
    /\ Has(r, "h")
    /\ \/ r.params.h \in closedOk
       \/ r.params.h > ReservedMax /\ r.params.h \notin DOMAIN issued

\* C6 as stated: after close{h} succeeded every read, write or close naming h
\* returns E_CLOSED, and so does one naming a non-reserved handle never issued.
C6_DeadHandleAlwaysEClosed ==
    \A r \in ReadReqs \cup WriteReqs \cup CloseReqs :
        NamesDeadHandle(r) => Code(After(r).resp) = "E_CLOSED"

WellFormed(r) ==
    /\ r.op = "read" => (Has(r, "max") => r.params.max # 0)
    /\ r.op = "write" => Has(r, "data")

\* C6 amended: the same, for a read whose max is not 0, a write that carries
\* a data string, and a close; the request changes nothing.
C6_DeadHandleEClosed ==
    \A r \in ReadReqs \cup WriteReqs \cup CloseReqs :
        (NamesDeadHandle(r) /\ WellFormed(r)) =>
            /\ Code(After(r).resp) = "E_CLOSED"
            /\ After(r).st = State

\* a close succeeded on a non-reserved handle and the later read, write and
\* close of the scenario were all answered; the last answer is E_CLOSED
C6_Witness ==
    /\ Finished("close_then_access")
    /\ script.burnt = 2
    /\ script.got[3] \in closedOk
    /\ Code(script.last) = "E_CLOSED"

\* C7: the round trip open(p,"rw"), write(b), close, open(p,"rw"), read on a
\* virtual path returns exactly b.  Stated for a broker that has issued two
\* handles before, so that the round trip's own handles are 3 and 4.
C7_VirtualRoundTrip ==
    (Finished("roundtrip") /\ script.burnt = 2) =>
        (script.last.ok /\ LastData = script.arg)

C9_AppendThenRead ==
    /\ \A h \in DOMAIN handles :
           (handles[h].append /\ h > ReservedMax) =>
               LET ino == ofds[handles[h].file].ino
                   out == After(WriteReq(h, TextB))
               IN  out.resp.ok /\ out.st.inodes[ino] = inodes[ino] \o <<ByteB>>
    /\ (Finished("appendtwice") /\ script.burnt = 2) =>
           (script.last.ok /\ LastData = <<ByteA, ByteB>>)

\* C10: open with mode "r" on a path of neither allowlist that no creating
\* open has named returns E_NOENT, allocates no handle and creates no
\* virtual entry.
C10_OpenRVirtualNoent ==
    /\ \A p \in Paths :
           (IsVirtual(p) /\ p \notin created) =>
               /\ Code(After(OpenReq(p, "r")).resp) = "E_NOENT"
               /\ After(OpenReq(p, "r")).st = State
    /\ Finished("open_r") =>
           /\ Code(script.last) = "E_NOENT"
           /\ script.got[Len(script.got)] = 0
           /\ next = InitialNext + script.burnt
           /\ virtual_files = EmptyFn

\* the open_r scenario has run after two other opens: the open was answered
C10_Witness ==
    /\ Finished("open_r")
    /\ script.burnt = 2
    /\ "v" \notin created
    /\ Code(script.last) = "E_NOENT"

\* every upstream response that reached a stage socket, as <<stage, position, answer index>>
Delivered ==
    {d \in Stages \X (1..MaxFrames + 1) \X (1..MaxFrames + 1) :
        /\ d[2] <= Len(via[d[1]])
        /\ via[d[1]][d[2]] = d[3]}

\* C4: under any interleaving of the stages' requests, equal stage-local ids
\* included, every upstream response is written only to the socket of the stage
\* whose request it answers, once, and carries that stage's original id.
C4_ResponseRoutedToSender ==
    /\ \A d \in Delivered :
          /\ d[3] <= Len(fwdlog) /\ d[3] <= Len(answers)
          /\ fwdlog[d[3]].stage = d[1]
          /\ sock_out[d[1]][d[2]] = [answers[d[3]] EXCEPT !.id = fwdlog[d[3]].child_id]
    /\ \A d, e \in Delivered : d[3] = e[3] => d = e

\* two stages had requests with the same stage-local id pending at once, and
\* each got its own, different, response back under that id
C4_Witness ==
    /\ Len(fwdlog) = 2
    /\ fwdlog[2].clash
    /\ fwdlog[1].stage # fwdlog[2].stage
    /\ via[fwdlog[1].stage] = <<1>>
    /\ via[fwdlog[2].stage] = <<2>>
    /\ sock_out[fwdlog[1].stage][1].id = sock_out[fwdlog[2].stage][1].id
    /\ answers[1].ok # answers[2].ok

\* C5: no request of a stage that names handle 0, 1 or 2 is forwarded to the
\* broker, whatever its op.
C5_ReservedNeverForwarded ==
    \A k \in 1..Len(fwdlog) :
        ~(Has(fwdlog[k].frame, "h") /\ fwdlog[k].frame.params.h \in 0..ReservedMax)



\* the request names an open handle that its opening mode bars from the operation
WrongModeFor(r) ==
    /\ Has(r, "h")
    /\ r.params.h \in DOMAIN issued
    /\ \/ r.op = "read" /\ issued[r.params.h].mode \in {"w", "a"}
       \/ r.op = "write" /\ issued[r.params.h].mode = "r"

\* C11 as stated: every read on a handle opened "w" or "a" and every write on a
\* handle opened "r" is answered E_PERM and changes nothing.
C11_WrongModeAlwaysEPerm ==
    \A r \in ReadReqs \cup WriteReqs :
        WrongModeFor(r) => (Code(After(r).resp) = "E_PERM" /\ After(r).st = State)

\* C11 amended: a read whose max is not 0 on a handle opened "w" or "a", and a
\* write carrying a data string on a handle opened "r", is answered E_PERM, on
\* real and virtual paths, and changes neither file contents nor positions.
C11_WrongModeEPerm ==
    \A r \in ReadReqs \cup WriteReqs :
        (WrongModeFor(r) /\ WellFormed(r)) =>
            (Code(After(r).resp) = "E_PERM" /\ After(r).st = State)

\* a handle above the reserved ones was opened and the operation its mode bars
\* was refused for the mode's sake
C11_Witness ==
    /\ Finished("wrong_mode")
    /\ script.burnt = 2
    /\ ~script.last.ok
    /\ script.last.error.message \in {"not readable", "not writable"}

\* C12: a read with max 0 is answered E_ARG whatever handle it names (reserved,
\* open in any mode, closed, never issued, or none) and reads nothing.
C12_ReadMaxZeroEArg ==
    \A r \in ReadReqs :
        (Has(r, "max") /\ r.params.max = 0) =>
            (Code(After(r).resp) = "E_ARG" /\ After(r).st = State)

\* a read with max 0 on an open readable handle above the reserved ones, with
\* bytes to read, was answered E_ARG
C12_Witness ==
    /\ Finished("read_max_zero")
    /\ script.burnt = 2
    /\ script.got[3] \in DOMAIN handles
    /\ handles[script.got[3]].readable
    /\ ofds[handles[script.got[3]].file].pos = 0
    /\ Code(script.last) = "E_ARG"

\* C13: on one connection the broker writes one response for each request it
\* has read, no more, each with its request's id, in the order of the requests,
\* however far ahead of the responses the client writes.
C13_OneResponsePerRequestInOrder ==
    /\ Len(answers) + Len(up_q) = Len(sent)
    /\ \A k \in 1..Len(answers) : answers[k].id = sent[k].id
    /\ \A k \in 1..Len(down_q) :
           down_q[k] = answers[Len(answers) - Len(down_q) + k]

\* two requests with different ids were written before any response was read,
\* and both have been answered, one ok and one not
C13_Witness ==
    /\ Len(sent) = 2
    /\ sent[1].id # sent[2].id
    /\ Len(down_q) = 2
    /\ up_q = <<>>
    /\ down_q[1].ok # down_q[2].ok

\* the broker's responses run_mux has taken off the upstream socket
Processed == Len(answers) - Len(down_q)

\* C14, in states: every response run_mux has processed reached the stage that
\* asked, unless that stage has closed its socket; it left no pending entry;
\* and run_mux gives up only on stages that closed.
C14_Survivors ==
    /\ \A k \in 1..Processed :
           /\ \/ stage[fwdlog[k].stage].closed
              \/ \E d \in Delivered : d[1] = fwdlog[k].stage /\ d[3] = k
           /\ \A d \in Delivered : d[3] = k => d[1] = fwdlog[k].stage
           /\ ToString(k) \notin DOMAIN pending
    /\ \A i \in Stages : ~children[i].alive => stage[i].closed

RECURSIVE SumWritten(_)
SumWritten(reps) ==
    IF reps = <<>> THEN 0
    ELSE (IF Head(reps).ok /\ "written" \in DOMAIN Head(reps).result
          THEN Head(reps).result.written ELSE 0) + SumWritten(Tail(reps))

LastReply == shim.replies[Len(shim.replies)]
Returned == shim.pc = "done" /\ shim.h > ReservedMax
ZeroReply(rep) == rep.ok /\ ("written" \in DOMAIN rep.result => rep.result.written = 0)

\* what holds of write_chunk on a non-reserved handle whatever the replies: it
\* sends at most one frame per byte of data, each frame carries the handle and
\* the remainder not yet written, an error reply ends it with that reply's
\* code, and a reply of written 0 (or none) ends it with E_IO
ChunkLoopSound ==
    shim.pc \in {"loop", "recv", "done"} /\ shim.h > ReservedMax =>
        /\ Len(shim.frames) <= Len(shim.data)
        /\ shim.total_written = SumWritten(shim.replies)
        /\ shim.pc = "recv" =>
              /\ LET f == shim.frames[Len(shim.frames)]
                 IN  f.params = [h |-> shim.h, data |-> B64Encode(Remaining(shim))]
              /\ Len(shim.frames) = Len(shim.replies) + 1
              /\ shim.total_written < Len(shim.data)
        /\ (Returned /\ shim.replies # <<>> /\ ~LastReply.ok) =>
              shim.result = ChunkErr(map_code(LastReply.error.code))
        /\ (Returned /\ shim.replies # <<>> /\ ZeroReply(LastReply)) =>
              shim.result = ChunkErr("EIO")
        /\ (Returned /\ shim.result.ok) => shim.result.n = SumWritten(shim.replies)

\* C15 as stated: for every sequence of replies the call ends, and when it ends
\* without an error the written values sum to the data length, which it returns.
C15_WriteChunkAnyReplies ==
    /\ ChunkLoopSound
    /\ (Returned /\ shim.result.ok) =>
          (SumWritten(shim.replies) = Len(shim.data) /\ shim.result.n = Len(shim.data))

\* C15 amended: the same, as long as no reply reports more bytes written than
\* the frame it answers carried; a reply that reports more ends the call with
\* the sum of the written values, which then exceeds the data length.
C15_WriteChunkLoop ==
    /\ ChunkLoopSound
    /\ (Returned /\ shim.result.ok) =>
          IF SumWritten(shim.replies) > Len(shim.data)
          THEN shim.result.n = SumWritten(shim.replies)
          ELSE SumWritten(shim.replies) = Len(shim.data) /\ shim.result.n = Len(shim.data)

\* three bytes went out in three frames, one byte written per reply, and the
\* call returned 3
C15_Witness ==
    /\ Returned
    /\ Len(shim.data) = 3
    /\ Len(shim.frames) = 3
    /\ \A k \in 1..3 : shim.replies[k].ok /\ shim.replies[k].result = [written |-> 1]
    /\ shim.result = ChunkOk(3)

\* every handle a successful open has returned so far, closed since or not
EverIssued == DOMAIN issued \cup closedOk

\* C16: the handle any open returns is greater than every handle issued
\* before it, those closed since included: handles increase strictly in issue
\* order and none is issued twice.
C16_HandlesIncreaseNeverReused ==
    \A r \in OpenReqs :
        After(r).resp.ok =>
            /\ \A g \in EverIssued : After(r).resp.result.handle > g
            /\ After(r).st.next > After(r).resp.result.handle

\* a handle was issued and closed, and the open after the close returned a
\* greater one
C16_Witness ==
    /\ Finished("roundtrip")
    /\ script.got[Len(script.got) - 1] \in closedOk
    /\ script.got[Len(script.got)] \in DOMAIN issued
    /\ script.got[Len(script.got)] > script.got[Len(script.got) - 1]

SpecifiedOps == {"ping", "open", "read", "write", "close"}

\* C17: a request whose op is none of ping, open, read, write, close is
\* answered E_UNSUPPORTED and leaves the broker's state as it was.
C17_UnknownOpUnsupported ==
    \A r \in Requests :
        r.op \notin SpecifiedOps =>
            (Code(After(r).resp) = "E_UNSUPPORTED" /\ After(r).st = State)

\* the open's mode is none of r, w, a, rw, or its path or mode is missing or
\* is not a string
IllFormedOpen(r) ==
    \/ ~Has(r, "path") \/ ~Has(r, "mode")
    \/ r.params.path = NotStr \/ r.params.mode = NotStr
    \/ r.params.mode \notin {"r", "w", "a", "rw"}

\* C18: such an open is answered E_ARG, allocates no handle and creates no
\* virtual entry: the broker's state is as before.
C18_IllFormedOpenEArg ==
    \A r \in OpenReqs :
        IllFormedOpen(r) =>
            /\ Code(After(r).resp) = "E_ARG"
            /\ After(r).st = State
            /\ After(r).st.next = next
            /\ DOMAIN After(r).st.virtual_files = DOMAIN virtual_files

\* an open with mode "rr" came after two good opens and was answered E_ARG;
\* the next handle is still the third
C18_Witness ==
    /\ Finished("invalid_mode")
    /\ script.burnt = 2
    /\ Code(script.last) = "E_ARG"
    /\ next = InitialNext + 2
    /\ virtual_files = EmptyFn

\* the request's parameters are valid but for the handle it names
ValidButForHandle(r) ==
    /\ Has(r, "h")
    /\ r.op = "read" => (Has(r, "max") => r.params.max > 0)
    /\ r.op = "write" => (HasStr(r, "data") /\ B64Decode(r.params.data).ok)

ReservedFrames ==
    {Request(id, "write", pm) : id \in ConnIds,
        pm \in [h : {0}, data : {TextA, BadText}] \cup [h : {0}]}
    \cup {Request(id, "close", [h |-> h]) : id \in ConnIds, h \in 0..ReservedMax}
    \cup {Request(id, "read", pm) : id \in ConnIds,
        pm \in [h : {0}, max : Maxes] \cup [h : {0}]}

\* the frame run_mux wrote last to stage i's socket in state m
LastTo(m, i) == m.sock_out[i][Len(m.sock_out[i])]

\* m1 differs from run_mux's present state by one more local answer to stage i
OnlyAnswered(m1, i) ==
    /\ Len(m1.sock_out[i]) = Len(sock_out[i]) + 1
    /\ m1.via[i] = Append(via[i], 0)
    /\ [m1 EXCEPT !.sock_out = sock_out, !.via = via] = Mux

\* C20: whatever state run_mux is in, it answers a stage's write on handle 0
\* with E_PERM, a close of handle 0, 1 or 2 with closed:true while releasing
\* nothing (a write on handle 1 or 2 after the close still reaches the
\* standard stream), and, once standard input is at EOF, a read on handle 0
\* with eof:true and empty data; none goes upstream.
C20_ReservedLocalOutcomes ==
    \A i \in Stages : \A f \in ReservedFrames :
        ~stage[i].closed =>
            LET m1 == ChildFrame(Mux, i, f) IN
            /\ (f.op = "write") =>
                  /\ OnlyAnswered(m1, i)
                  /\ ~LastTo(m1, i).ok
                  /\ LastTo(m1, i).id = f.id
                  /\ LastTo(m1, i).error.code = "E_PERM"
            /\ (f.op = "close") =>
                  /\ OnlyAnswered(m1, i)
                  /\ LastTo(m1, i).ok
                  /\ LastTo(m1, i).id = f.id
                  /\ LastTo(m1, i).result.closed
                  /\ \A h \in {1, 2} :
                        LET m2 == ChildFrame(m1, i, Request(f.id, "write",
                                                 [h |-> h, data |-> TextA]))
                        IN  /\ LastTo(m2, i).ok
                            /\ LastTo(m2, i).result.written = 1
                            /\ m2.stdio.stdout \o m2.stdio.stderr =
                                   stdio.stdout \o stdio.stderr \o <<ByteA>>
            /\ (f.op = "read" /\ stdio.stdin = <<>>) =>
                  /\ OnlyAnswered(m1, i)
                  /\ LastTo(m1, i).ok
                  /\ LastTo(m1, i).id = f.id
                  /\ LastTo(m1, i).result.eof
                  /\ LastTo(m1, i).result.data = <<>>

\* a stage read standard input to its end through handle 0 and then read
\* again: the second answer is eof:true with empty data, both given locally
C20_Witness ==
    \E i \in Stages :
        /\ via[i] = <<0, 0>>
        /\ stdio.stdin = <<>>
        /\ \A k \in {1, 2} : sock_out[i][k].ok /\ "data" \in DOMAIN sock_out[i][k].result
        /\ sock_out[i][1].result.data = TextA
        /\ sock_out[i][2].result.eof
        /\ sock_out[i][2].result.data = <<>>
        /\ fwdlog = <<>>

-----------------------------------------------------------------------------
(* Claims about run_mux's loop, its end and its failure paths.              *)

IdNum(id) == CHOOSE n \in 1..(MaxFrames + 1) : ToString(n) = id

\* C22: on every stage socket the responses arrive in the order of the
\* requests they answer, whether run_mux answered them itself or forwarded
\* them: the ids, which the stage numbers upwards, never go down.
C22_StageResponseOrder ==
    \A i \in Stages :
        \A a, b \in 1..Len(sock_out[i]) :
            a < b => IdNum(sock_out[i][a].id) < IdNum(sock_out[i][b].id)

-----------------------------------------------------------------------------
(* Claims about the built-ins' exit codes and about the broker's table.     *)

\* error codes a response may carry: the broker's six and two it never sends
ErrorCodes == {"E_ARG", "E_NOENT", "E_PERM", "E_IO", "E_CLOSED", "E_UNSUPPORTED",
               "E_QUOTA", "?"}

\* the exit code the mapping gives for an error code
ExitFor(c) ==
    CASE c = "E_NOENT" -> 1
      [] c \in {"E_PERM", "E_ARG"} -> 2
      [] c = "E_IO" -> 3
      [] c = "E_CLOSED" -> 4
      [] c = "E_UNSUPPORTED" -> 5
      [] OTHER -> 6

\* C23: a built-in that gives up on a failed open, read or write returns 1
\* for E_NOENT, 2 for E_PERM and E_ARG, 3 for E_IO, 4 for E_CLOSED, 5 for
\* E_UNSUPPORTED and 6 for any other code, for every code and for every
\* error the broker answers in any reachable state; cat of a path that is
\* in no allowlist and was never created returns 1.
C23_ExitCodeMapping ==
    /\ \A c \in ErrorCodes : abort_exit(err("1", c, "")) = ExitFor(c)
    /\ \A r \in Requests :
          (r.op \in {"open", "read", "write"} /\ ~After(r).resp.ok) =>
              abort_exit(After(r).resp) = ExitFor(Code(After(r).resp))
    /\ \A p \in Paths :
          (IsVirtual(p) /\ p \notin created /\ p \notin DOMAIN virtual_files) =>
              run_builtin_cat(State, p) = 1

\* a broker that has served other opens answers cat's open of a path nobody
\* created with E_NOENT, and cat returns 1
C23_Witness ==
    /\ Finished("open_r")
    /\ script.burnt > 0
    /\ ~script.last.ok
    /\ abort_exit(script.last) = 1
    /\ \E p \in Paths : IsVirtual(p) /\ p \notin created /\ run_builtin_cat(State, p) = 1

\* C24: open(p,"rw") on a fresh virtual path, write(b), then read with max
\* at least Len(b) on the same handle succeeds and returns exactly b.
\* Stated for a broker that has issued two handles before, so that the
\* handle is 3.
C24_WriteThenReadSameHandle ==
    (Finished("write_read") /\ script.burnt = 2) =>
        (script.last.ok /\ LastData = script.arg)

\* the flags the table of modes gives a handle
FlagsOf(mode) ==
    [readable |-> mode \in {"r", "rw"},
     writable |-> mode \in {"w", "a", "rw"},
     append |-> mode = "a"]

\* C25: every entry of the handle table is readable or writable, appends
\* only if writable, and has the flags of the mode of the open that made it;
\* a read is served only on a handle opened r or rw, a write only on one
\* opened w, a or rw.
C25_HandleFlagsFollowMode ==
    /\ DOMAIN handles = DOMAIN issued
    /\ \A h \in DOMAIN handles :
          LET e == handles[h] IN
          /\ e.readable \/ e.writable
          /\ e.append => e.writable
          /\ [readable |-> e.readable, writable |-> e.writable, append |-> e.append]
                = FlagsOf(issued[h].mode)
    /\ \A r \in ReadReqs :
          After(r).resp.ok =>
              r.params.h \in DOMAIN issued /\ issued[r.params.h].mode \in {"r", "rw"}
    /\ \A r \in WriteReqs :
          After(r).resp.ok =>
              r.params.h \in DOMAIN issued /\ issued[r.params.h].mode \in {"w", "a", "rw"}

\* the table holds a handle opened r and one opened a; the broker serves a
\* write on the second and refuses one on the first
C25_Witness ==
    \E h1, h2 \in DOMAIN handles :
        /\ issued[h1].mode = "r"
        /\ issued[h2].mode = "a"
        /\ h2 > ReservedMax
        /\ handles[h2].append
        /\ After(WriteReq(h2, TextA)).resp.ok
        /\ ~After(WriteReq(h1, TextA)).resp.ok

-----------------------------------------------------------------------------
(* Claims about bridge mode.                                                *)

IsPrefix(a, b) == Len(a) <= Len(b) /\ SubSeq(b, 1, Len(a)) = a

\* C26: in each direction what the bridge has written to one socket is a
\* prefix of what the peer of the other wrote, nothing is lost between the
\* two while the copy loop runs, the loop that read EOF has shut down the
\* other socket's write side with every byte written there first, and
\* run_bridge returns only after both loops have ended, and then does.
C26_BridgeCopies ==
    /\ [](\A d \in Dirs :
            LET s == bridge.sock[From(d)]
                t == bridge.sock[To(d)]
                th == bridge.thr[d]
            IN  /\ IsPrefix(t.got, s.wrote)
                /\ (th.pc # "done") =>
                      (~t.shut /\ t.got \o th.buf \o s.unread = s.wrote)
                /\ (th.end = "eof") => (t.shut /\ s.weof /\ t.got = s.wrote)
                /\ t.shut => th.end \in {"eof", "write error"})
    /\ [](bridge.pc = "returned" => \A d \in Dirs : bridge.thr[d].pc = "done")
    /\ ((\A d \in Dirs : bridge.thr[d].pc = "done") ~> (bridge.pc = "returned"))

\* the client wrote more than one read returns and shut down, the upstream
\* answered and shut down; both loops forwarded everything, propagated the
\* EOF, and run_bridge returned
C26_Witness ==
    /\ bridge.pc = "returned"
    /\ \A d \in Dirs : bridge.thr[d].end = "eof"
    /\ bridge.sock["upstream"].got = <<ByteA, ByteB, ByteA>>
    /\ bridge.sock["client"].got = <<ByteB>>
    /\ \A s \in Sides : bridge.sock[s].shut

\* run_mux has had a write to the upstream socket fail
UpstreamWriteFailed == \E k \in 1..Len(fwdlog) : ~fwdlog[k].written

\* C27: once a write to the upstream socket has failed, run_mux is out of
\* its loop: it takes no further frame from any stage, marks no stage, and
\* numbers, records and forwards no further request.
C27_UpstreamWriteErrorFatal ==
    [][UpstreamWriteFailed =>
          UNCHANGED <<children, pending, req_seq, up_q, sock_out, fwdlog>>]_vars

\* in this step run_mux takes a response for stage i off the pending map
\* while the stage has closed its socket: the write to the stage fails
StageWriteFails(i) ==
    /\ stage[i].closed
    /\ \E q \in DOMAIN pending : pending[q].child_fd = i /\ q \notin DOMAIN pending'

\* C28: a failed write of a response to a stage socket makes run_mux mark
\* the stage not alive.
C28_StageWriteErrorKillsStage ==
    [][\A i \in Stages : StageWriteFails(i) => ~children'[i].alive]_vars

\* well-formed frames as they stand in a stage's buffer
GoodFrames == {[f EXCEPT !.id = id] : f \in StageFrames \ {BadJson}, id \in ConnIds}

\* C29: a frame that is no JSON changes nothing in run_mux (nothing goes
\* upstream, nothing is recorded as pending, nothing is written to the
\* stage), a buffer that holds a well-formed frame behind it is processed
\* as if the bad frame were not there, and a step that takes a bad frame
\* from a stage that still holds its socket leaves the stage alive.
C29_BadJsonSkipped ==
    /\ [](\A i \in Stages :
            ~stage[i].closed =>
                /\ ChildFrame(Mux, i, BadJson) = Mux
                /\ \A g \in GoodFrames :
                      /\ ChildFrames(Mux, i, <<BadJson, g>>) = ChildFrames(Mux, i, <<g>>)
                      /\ ChildFrames(Mux, i, <<BadJson, g>>) # ChildFrames(Mux, i, <<>>))
    /\ [][\A i \in Stages :
            (~stage[i].closed /\ children[i].alive
                /\ \E k \in 1..Len(sock_in[i]) : sock_in[i][k] = BadJson)
            => children'[i].alive]_vars

\* a stage wrote bytes that are no JSON and then a ping; run_mux forwarded
\* the ping alone, the stage has its answer and is still alive
C29_Witness ==
    \E i \in Stages :
        /\ stage[i].seq = 2 /\ ~stage[i].closed
        /\ children[i].alive
        /\ sock_in[i] = <<>>
        /\ Len(fwdlog) = 1 /\ fwdlog[1].stage = i /\ fwdlog[1].child_id = "2"
        /\ via[i] = <<1>>
        /\ sock_out[i][1].id = "2" /\ sock_out[i][1].ok

\* responses whose id is in nobody's name: the broker's answer to a frame it
\* could not parse, and ids run_mux has not handed out or has retired
StrayResponses ==
    {err("?", "E_ARG", "invalid json")}
    \cup {ok(id, [pong |-> TRUE]) :
            id \in {ToString(n) : n \in 0..(MaxFrames + 1)} \ DOMAIN pending}

C38_ErrorChangesNothing ==
    \A r \in Requests :
        ~After(r).resp.ok =>
            /\ After(r).st.handles = handles
            /\ After(r).st.next = next
            /\ After(r).st.virtual_files = virtual_files

\* a handle is open, a virtual file exists, and some request on that handle
\* is answered with an error
C38_Witness ==
    /\ DOMAIN virtual_files # {}
    /\ \E h \in DOMAIN handles : h > ReservedMax /\ ~handles[h].readable
           /\ Code(After(ReadReq(h, 16)).resp) = "E_PERM"

\* the file position a handle reads and writes at
Cursor(st, h) == st.ofds[st.handles[h].file].pos
\* handles h and g are open on the same virtual path
SameVirtual(h, g) ==
    \E p \in DOMAIN virtual_files :
        /\ handles[h].file = virtual_files[p].file
        /\ handles[g].file = virtual_files[p].file

\* C34: each open of a virtual path has its own cursor: a read or write
\* through one handle leaves the position of every other handle open on the
\* same virtual path where it was, and so does an open with mode "r", whose
\* new handle starts at offset 0.
C34_IndependentCursors ==
    /\ \A h \in DOMAIN handles : \A g \in DOMAIN handles \ {h} :
           SameVirtual(h, g) =>
               \A r \in {ReadReq(h, 16), WriteReq(h, TextA)} :
                   After(r).resp.ok => Cursor(After(r).st, g) = Cursor(State, g)
    /\ \A p \in DOMAIN virtual_files : \A g \in DOMAIN handles :
           LET o == After(OpenReq(p, "r"))
           IN  (handles[g].file = virtual_files[p].file /\ o.resp.ok) =>
                   /\ Cursor(o.st, o.resp.result.handle) = 0
                   /\ Cursor(o.st, g) = Cursor(State, g)

\* ids of the frames between run_mux and the broker: requests written
\* upstream and not yet served, responses written and not yet parsed
InFlight ==
    {up_q[j].id : j \in 1..Len(up_q)} \cup {down_q[j].id : j \in 1..Len(down_q)}

OwnerOf(h) ==
    IF \E k \in 1..Len(answers) :
           fwdlog[k].frame.op = "open" /\ answers[k].ok /\ answers[k].result.handle = h
    THEN fwdlog[CHOOSE k \in 1..Len(answers) :
                    fwdlog[k].frame.op = "open" /\ answers[k].ok
                    /\ answers[k].result.handle = h].stage
    ELSE 0

\* C37: handles are private to the stage socket they were issued on: a read,
\* write or close that names a handle issued in answer to another stage's
\* open is not carried out (it is not answered with success).
C37_HandlesPrivate ==
    \A k \in 1..Len(answers) :
        LET f == fwdlog[k].frame
        IN  (f.op \in {"read", "write", "close"} /\ OwnerOf(f.params.h) \notin {0, fwdlog[k].stage})
                => ~answers[k].ok

\* params of a request whose h is the integer 2^32 + low
WideH(low, pm) == [k \in DOMAIN pm \cup {"h_hi"} |-> IF k = "h_hi" THEN 1 ELSE
                                                      IF k = "h" THEN low ELSE pm[k]]
WideReqs(low) ==
    {Request("1", "read", WideH(low, [h |-> low, max |-> 16])),
     Request("1", "write", WideH(low, [h |-> low, data |-> TextA])),
     Request("1", "close", WideH(low, [h |-> low]))}

\* C40: a read, write or close whose h is 2^32 or more is never treated as the
\* handle h mod 2^32: the broker does not carry it out on an open handle,
\* and run_mux does not intercept it as reserved handle 0, 1 or 2 but
\* forwards it.
C40_WideHandleNotTruncated ==
    /\ \A low \in DOMAIN handles : \A r \in WideReqs(low) : ~After(r).resp.ok
    /\ \A low \in 0..ReservedMax : \A f \in WideReqs(low) : \A i \in Stages :
           /\ ChildFrame(Mux, i, f).sock_out = sock_out
           /\ Len(ChildFrame(Mux, i, f).up_q) = Len(up_q) + 1

\* C33: when the client's stream ends exactly on a frame boundary the origin
\* broker leaves its loop normally, returns Ok and warns if and only if
\* handles are still open; when the stream ends inside the 4-byte header or
\* inside a body, main returns Err; in both cases it has written one response
\* per whole frame and none for the part of a frame.
C33_EofOnBoundaryOrProtocolError ==
    origin.pc = "exited" =>
        /\ origin.why = "clean EOF" =>
               /\ origin.peer # "open" /\ origin.part = 0
               /\ origin.exit = "Ok"
               /\ origin.warned = (DOMAIN handles # {})
               /\ Len(origin.out) = origin.whole
        /\ origin.why = "proto" =>
               /\ origin.peer # "open" /\ origin.part > 0
               /\ origin.exit = "Err"
               /\ ~origin.warned
               /\ Len(origin.out) = origin.whole
        /\ origin.peer = "shut" =>
               /\ origin.part = 0 => origin.why = "clean EOF"
               /\ origin.part > 0 => origin.why = "proto"

\* the client wrote an open frame and then one byte of a frame's body
\* before it stopped; the broker answered the open and has failed
C33_Witness ==
    /\ origin.pc = "exited"
    /\ origin.why = "proto"
    /\ origin.whole = 1
    /\ origin.part = 5
    /\ DOMAIN handles # {}
    /\ Len(origin.out) = 1

\* C39: the wait calls that follow run_mux reap exactly the stages of the
\* pipeline that has just run, so that for a single-stage pipeline
\* spawn_pipeline returns that stage's exit code; for every line of a script.
C39_WaitReapsOwnStages ==
    \A l \in 1..Len(spawner.last) :
        /\ \A p \in 1..Len(spawner.procs) :
               spawner.procs[p].by = l <=> p \in ProcsOf(l, "stage")
        /\ \A p \in ProcsOf(l, "stage") :
               Cardinality(ProcsOf(l, "stage")) = 1 => spawner.last[l] = spawner.procs[p].code

\* C32: run_mux suspends in poll only: while it handles a wake it is never
\* inside a read that has nothing to return, neither on the upstream socket
\* nor on standard input.
C32_SuspendsOnlyInPoll == ~InBlockedRead

\* C36: with a broker that serves every request, no socket error, standard
\* input that comes to its end, and every enabled step of run_mux taken in
\* time, each request a stage has sent gets its response, and one only: a
\* stage never has more responses than requests, and a stage that waits for
\* a response comes to have as many responses as requests.
C36_EveryRequestAnswered ==
    \A i \in Stages :
        /\ [](wake.got[i] <= wake.asked[i])
        /\ wake.waiting[i] ~> (wake.got[i] = wake.asked[i])

\* the standard stream a call on a reserved handle reads or writes
StreamOf(c) ==
    IF c.op = "read" /\ c.h = 0 THEN "stdin"
    ELSE IF c.op = "write" /\ c.h = 1 THEN "stdout"
    ELSE IF c.op = "write" /\ c.h = 2 THEN "stderr"
    ELSE "none"
\* the call reads, or writes at least one byte, on a stream that fails
StreamFails(c) == StreamOf(c) \in stdio.broken /\ (c.op = "write" => c.data # <<>>)
ReservedCall(c) ==
    \/ c.op = "read" /\ c.h = 0
    \/ c.op = "write" /\ c.h <= ReservedMax
    \/ c.op = "close" /\ c.h <= ReservedMax

=============================================================================
